---- MODULE Spec2Model ----
(***************************************************************************)
(* Summify session server: the bounded-concurrency scheduler (WorkerPool), *)
(* the retrying invoker (processChunk) and the rate limiters (RateLimiter, *)
(* SimpleRateLimiter).                                                     *)
(*                                                                         *)
(* Node runs every handler to completion on one thread, so each action is  *)
(* one synchronous block of the source: a call from outside, the           *)
(* continuation after an await, or a timer callback.                       *)
(***************************************************************************)
EXTENDS Integers, Sequences, FiniteSets, TLC

VARIABLES config, pool, faults, invoker, limiter, chunker, stream, route

vars == <<config, pool, faults, invoker, limiter, chunker, stream, route>>

(***************************************************************************)
(* Bounds of the model                                                     *)
(***************************************************************************)
MaxTasks == 2          \* addTask calls in one behaviour
MaxConcurrent == 2     \* largest configured maxConcurrentRequests
MaxPriority == 1       \* priorities passed to addTask are 1..MaxPriority
MaxRetriesCfg == 1     \* the configured MAX_RETRIES is 0..MaxRetriesCfg
CappedRetries == 5     \* a configured MAX_RETRIES whose last backoff is the cap
LargePoolSize == 16    \* a configured MAX_WORKER_POOL_SIZE above the default
MaxFailures == 2       \* calls of a task's fn that throw in one behaviour
MaxTimeouts == 1       \* REQUEST_TIMEOUT callbacks that run in one behaviour
MaxInvocations == 2    \* processChunk invocations in one behaviour
MaxCallers == 4        \* callers of a rate limiter in one behaviour
MaxRate == 2           \* largest configured maxRequestsPerMinute
MaxTicks == 4          \* the clock stops after MaxTicks steps
TicksPerWindow == 3    \* clock steps in one 60-second window
QueueTasks == 3        \* addTask calls in one behaviour of the one-worker pool
QueuePriorities == 3   \* priorities passed to addTask there are 1..QueuePriorities
MaxPieces == 4         \* a text is made of 1..MaxPieces pieces
MaxChunkSize == 3      \* the maxChunkSize passed to chunkText is 1..MaxChunkSize
MaxCalls == 2          \* chunkText calls on the same text in one behaviour
ShortHeaderWindow == 3     \* the thresholds of chunkText brought down to the
ShortLineWindow == 2       \* length of the texts above: 500, 300, 200,
ShortSentenceWindow == 1   \* 50000 and 3000 in the source
ShortDocument == 4
ShortChunk == 2
MaxLineText == 9           \* a text of letters and newlines has 1..MaxLineText characters
MaxLineChunkSize == 5      \* and is cut with a maxChunkSize of 1..MaxLineChunkSize,
LineTextWindow == 5        \* under these windows,
LineTextDocument == 6      \* this text.length limit of the single chunk
LineTextChunk == 3         \* and this MIN_CHUNK_SIZE
MaxChunks == 11            \* chunkText returns 1..MaxChunks chunks for the request
MaxRouteChunks == 8        \* chunkText returns 1..MaxRouteChunks chunks for the POST
SmallParallelChunks == 2   \* a configured MAX_PARALLEL_CHUNKS below the default
SmallConcurrentRequests == 2   \* a configured MAX_CONCURRENT_REQUESTS below the default

(***************************************************************************)
(* Program constants                                                       *)
(***************************************************************************)
MinWorkers == 3                \* Math.max(3, ...) in adjustPoolSize
RequestsPerWorker == 10        \* requestsPerMinute / 10
MetricsIntervalMs == 300000    \* setInterval(updateRequestMetrics, 300000)
MsPerMinute == 60000
MaxBackoffMs == 30000          \* Math.min(30000, ...)
BaseBackoffMs == 1000
ServerMaxRetries == 3          \* const maxRetries = 3 in server.js
DefaultPoolSize == 10          \* MAX_WORKER_POOL_SIZE
DefaultMaxConcurrent == 25     \* MAX_CONCURRENT_REQUESTS
WindowMs == 60000              \* now - timestamp < 60000
HeaderWindow == 500            \* h > endIndex - 500, paragraphBreak > endIndex - 500
LineWindow == 300              \* lineBreak > endIndex - 300
SentenceWindow == 200          \* sentenceEnd > endIndex - 200
SmallDocument == 50000         \* text.length <= 50000
MinChunkSize == 3000           \* MIN_CHUNK_SIZE
MaxSafeChars == 180000         \* MAX_SAFE_CHARS
DefaultMaxParallelChunks == 10 \* MAX_PARALLEL_CHUNKS
DefaultMaxRetries == 3         \* MAX_RETRIES
DefaultRequestsPerMinute == 100  \* API_REQUESTS_PER_MINUTE
SmallCount == 5                \* chunks.length <= 5
MediumCount == 10              \* chunks.length <= 10
MediumParallelism == 3         \* Math.min(3, ...), Math.max(3, ...)
BatchDivisor == 4              \* Math.ceil(chunks.length / 4)
FirstChunkPriority == 1000     \* 1000 - chunkIndex
DirectCombination == 4         \* validSummaries.length <= 4
DefaultMaxChunkSize == 15000   \* MAX_CHUNK_SIZE
LargeDocument == 100000        \* text.length > 100000

Min(a, b) == IF a < b THEN a ELSE b
Max(a, b) == IF a > b THEN a ELSE b
Abs(a) == IF a < 0 THEN 0 - a ELSE a
CeilDiv(a, b) == IF a % b = 0 THEN a \div b ELSE (a \div b) + 1
Pow2(n) == IF n <= 0 THEN 1 ELSE IF n = 1 THEN 2 ELSE IF n = 2 THEN 4
           ELSE IF n = 3 THEN 8 ELSE IF n = 4 THEN 16 ELSE 32

Errors == {"transient", "terminal"}   \* classification of a failed call

(***************************************************************************)
(* WorkerPool.  pool is the WorkerPool object together with what its       *)
(* closures hold: the task objects, the running executeTask calls          *)
(* (attempts, each with its REQUEST_TIMEOUT timer), the REQUEST_TIMEOUT    *)
(* timers left armed by calls that have ended (staleTimers, per worker     *)
(* object) and the backoff timers.  Workers are objects; a worker sliced   *)
(* out of pool.workers still is referenced by the executeTask call that    *)
(* runs on it.  busy is the set of worker objects whose busy flag is true. *)
(* A task object is unreachable once its promise is settled; the model     *)
(* then keeps the outcome and the number of executions only.               *)
(***************************************************************************)
NoWorker == 0 - 1

\* the task state machine of the scheduler
Transitions ==
  { <<"queued", "executing">>, <<"executing", "completed">>, <<"executing", "failed">>,
    <<"executing", "retrying">>, <<"retrying", "queued">> }

\* task t moves to status s; legal records whether every move so far is one of
\* Transitions
Move(task, s) ==
  [task EXCEPT !.status = s,
               !.legal = @ /\ (<<task.status, s>> \in Transitions)]

\* constructor(size, maxConcurrentRequests)
WorkerPool(sz, maxConc) ==
  LET s == Min(sz, maxConc) IN
  [ size |-> s,
    tasks |-> <<>>,
    workers |-> [i \in 1..s |-> i - 1],
    maxConcurrentRequests |-> maxConc,
    activeRequests |-> 0,
    completedTasks |-> 0,
    failedTasks |-> 0,
    lastRequestsCount |-> 0,
    busy |-> {},
    nextWorker |-> s,
    task |-> <<>>,
    attempts |-> {},
    staleTimers |-> [w \in {} |-> 0],
    retryTimers |-> {} ]

\* Math.max(3, Math.min(Math.ceil(requestsPerMinute / 10), maxConcurrentRequests))
TargetSize(rpm, maxConc) ==
  Max(MinWorkers, Min(CeilDiv(rpm.num, rpm.den * RequestsPerWorker), maxConc))

\* a threshold of two workers whatever the size
SignificantChangeAboveTwo(target, sz) == Abs(target - sz) > 2

\* Math.abs(targetSize - size) > Math.max(2, size * 0.25)
SignificantChange(target, sz) ==
  /\ Abs(target - sz) > 2
  /\ 4 * Abs(target - sz) > sz

\* workers.sort((a, b) => a.busy ? 1 : (b.busy ? -1 : 0)): idle workers first,
\* each group in its previous order
IdleFirst(ws, busy) ==
  LET idle == SelectSeq(ws, LAMBDA w : w \notin busy)
      used == SelectSeq(ws, LAMBDA w : w \in busy)
  IN idle \o used

\* adjustPoolSize(); requestsPerMinute is the field updateRequestMetrics has
\* just written, a fraction num / den
AdjustPoolSize(p, requestsPerMinute) ==
  LET target == TargetSize(requestsPerMinute, p.maxConcurrentRequests) IN
  IF SignificantChange(target, p.size)
  THEN IF target > p.size
       THEN [p EXCEPT !.workers = @ \o [i \in 1..(target - p.size) |-> p.nextWorker + i - 1],
                      !.nextWorker = @ + (target - p.size),
                      !.size = target]
       ELSE [p EXCEPT !.workers = SubSeq(IdleFirst(@, p.busy), 1, target),
                      !.size = target]
  ELSE p

\* updateRequestMetrics(), run by the 5-minute interval timer:
\* requestsPerMinute = newCompletedTasks / timeDiffMinutes
UpdateRequestMetrics(p) ==
  LET newCompletedTasks == p.completedTasks - p.lastRequestsCount IN
  AdjustPoolSize([p EXCEPT !.lastRequestsCount = p.completedTasks],
                 [num |-> newCompletedTasks * MsPerMinute, den |-> MetricsIntervalMs])

\* workers.find(w => !w.busy)
GetAvailableWorker(p) ==
  LET idle == {i \in 1..Len(p.workers) : p.workers[i] \notin p.busy} IN
  IF idle = {} THEN NoWorker
  ELSE p.workers[CHOOSE i \in idle : \A j \in idle : i <= j]

\* a loop condition that leaves out the concurrency limit
CanDispatchNoLimit(p) == Len(p.tasks) > 0

\* the loop condition of processQueue
CanDispatch(p) ==
  Len(p.tasks) > 0 /\ p.activeRequests < p.maxConcurrentRequests

\* one iteration of processQueue's loop, and the synchronous start of
\* executeTask(worker, task): the timeout is armed and task.fn() is called
Dispatch(p, w) ==
  LET t == Head(p.tasks) IN
  [p EXCEPT !.tasks = Tail(@),
            !.busy = @ \cup {w},
            !.activeRequests = @ + 1,
            !.task[t] = [Move(@, "executing") EXCEPT !.execs = @ + 1],
            !.attempts = @ \cup {[task |-> t, worker |-> w, timer |-> "armed"]}]

RECURSIVE ProcessQueue(_)
ProcessQueue(p) ==
  IF CanDispatch(p)
  THEN LET w == GetAvailableWorker(p) IN
       IF w = NoWorker THEN p ELSE ProcessQueue(Dispatch(p, w))
  ELSE p

\* tasks.sort((a, b) => b.priority - a.priority): stable, highest priority first
InsertByPriority(sorted, t, task) ==
  LET k == Cardinality({i \in 1..Len(sorted) :
                           task[sorted[i]].priority >= task[t].priority})
  IN SubSeq(sorted, 1, k) \o <<t>> \o SubSeq(sorted, k + 1, Len(sorted))

RECURSIVE SortByPriority(_, _)
SortByPriority(q, task) ==
  IF q = <<>> THEN <<>>
  ELSE InsertByPriority(SortByPriority(SubSeq(q, 1, Len(q) - 1), task), q[Len(q)], task)

\* addTask(taskFn, priority, maxRetries)
AddTaskOp(p, priority, maxRetries) ==
  LET t == Len(p.task) + 1
      task == Append(p.task, [priority |-> priority, retries |-> 0,
                              maxRetries |-> maxRetries, status |-> "queued",
                              legal |-> TRUE, promise |-> "pending",
                              settles |-> 0, execs |-> 0,
                              lastError |-> "none", error |-> "none"])
  IN ProcessQueue([p EXCEPT !.task = task,
                            !.tasks = SortByPriority(Append(@, t), task)])

\* the finally block of executeTask
Finally(p, a) ==
  ProcessQueue([p EXCEPT !.busy = @ \ {a.worker},
                         !.activeRequests = @ - 1])

\* one more REQUEST_TIMEOUT timer of an ended call is pending on worker w
LeaveTimer(stale, w) ==
  IF w \in DOMAIN stale THEN [stale EXCEPT ![w] = @ + 1]
  ELSE [v \in DOMAIN stale \cup {w} |-> IF v = w THEN 1 ELSE stale[v]]

\* task.resolve(result) / task.reject(error); the task object is dropped
Settle(task, outcome, status) ==
  [Move(task, status) EXCEPT !.promise = IF @ = "pending" THEN outcome ELSE @,
                             !.settles = @ + 1,
                             !.priority = 0,
                             !.retries = 0]

\* executeTask after `await task.fn()` returned: clearTimeout, resolve
ExecuteTaskReturn(p, a) ==
  Finally([p EXCEPT !.attempts = @ \ {a},
                    !.task[a.task] = Settle(@, "resolved", "completed"),
                    !.completedTasks = @ + 1], a)

\* a test that grants one retry more
ShouldRetryOnceMore(task) == task.retries <= task.maxRetries

\* task.retries < task.maxRetries
ShouldRetry(task) == task.retries < task.maxRetries

\* a backoff that does not grow with the retries
BackoffFixed(retries) == BaseBackoffMs

\* Math.min(30000, 1000 * Math.pow(2, task.retries))
Backoff(retries) == Min(MaxBackoffMs, BaseBackoffMs * Pow2(retries))

\* a catch block that rejects a task out of retries and still re-arms it
CatchRejectAndRequeue(p, a, err) ==
  LET t == a.task
      q == [p EXCEPT !.attempts = @ \ {a},
                     !.staleTimers = IF a.timer = "armed" THEN LeaveTimer(@, a.worker) ELSE @]
      r == IF ShouldRetry(p.task[t]) THEN q
           ELSE [q EXCEPT !.task[t] = [Settle(@, "rejected", "failed") EXCEPT !.error = err],
                          !.failedTasks = @ + 1]
  IN [r EXCEPT !.task[t] = [Move(@, "retrying") EXCEPT !.retries = @ + 1],
               !.retryTimers = @ \cup {[task |-> t, error |-> err,
                                        delay |-> Backoff(p.task[t].retries + 1)]}]

\* the mutant of RejectWith: the promise is rejected with an error made there
RejectWithOwnError(task, error) ==
  [Settle(task, "rejected", "failed") EXCEPT !.error = "Task failed after retries"]

\* task.reject(error)
RejectWith(task, error) ==
  [Settle(task, "rejected", "failed") EXCEPT !.error = error]

\* the catch block of executeTask; clearTimeout is not reached on this path,
\* so a timer that has not fired stays armed.  lastError is the error the
\* latest execution of the task has thrown, kept until the task is queued again
Catch(p, a, err) ==
  LET t == a.task
      q == [p EXCEPT !.attempts = @ \ {a},
                     !.task[t].lastError = err,
                     !.staleTimers = IF a.timer = "armed" THEN LeaveTimer(@, a.worker) ELSE @]
  IN IF ShouldRetry(p.task[t])
     THEN [q EXCEPT !.task[t] = [Move(@, "retrying") EXCEPT !.retries = @ + 1],
                    !.retryTimers = @ \cup {[task |-> t, error |-> err,
                                             delay |-> Backoff(p.task[t].retries + 1)]}]
     ELSE [q EXCEPT !.task[t] = RejectWith(@, err),
                    !.failedTasks = @ + 1]

\* executeTask after `await task.fn()` threw
ExecuteTaskThrow(p, a, err) == Finally(Catch(p, a, err), a)

\* the REQUEST_TIMEOUT callback armed by executeTask, firing while fn runs
TimeoutCallback(p, a) ==
  ProcessQueue([p EXCEPT !.attempts = (@ \ {a}) \cup {[a EXCEPT !.timer = "fired"]},
                         !.busy = @ \ {a.worker},
                         !.activeRequests = @ - 1])

\* the same callback, firing after the call it was armed for has ended
StaleTimeoutCallback(p, w) ==
  ProcessQueue([p EXCEPT !.staleTimers[w] = @ - 1,
                         !.busy = @ \ {w},
                         !.activeRequests = @ - 1])

\* the backoff callback: tasks.unshift({...task, priority: task.priority + 1})
RetryCallback(p, r) ==
  LET t == r.task IN
  ProcessQueue([p EXCEPT !.retryTimers = @ \ {r},
                         !.task[t] = [Move(@, "queued") EXCEPT !.priority = @ + 1,
                                                               !.lastError = "none"],
                         !.tasks = <<t>> \o @])

(***************************************************************************)
(* processChunk, the retrying invoker.  invoker is the sequence of the     *)
(* invocations made so far, each with the locals of its call: maxRetries,  *)
(* retryCount and where it is suspended (pc).  calls counts the external   *)
(* calls it has made, waits lists its backoff delays and caught the        *)
(* classes of the errors it has caught.                                    *)
(***************************************************************************)
GiveUpError == "Failed to process chunk after retries"

\* while (retryCount < maxRetries) { try { await anthropic.messages.create(...)
LoopTest(v) == v.retryCount < v.maxRetries

\* the top of the loop: the next external call, or the throw after the loop
EnterLoop(v) ==
  IF LoopTest(v)
  THEN [v EXCEPT !.pc = "calling", !.calls = @ + 1]
  ELSE [v EXCEPT !.pc = "thrown", !.thrown = GiveUpError]

\* processChunk(text, chunkIndex) up to its first await
ProcessChunk(maxRetries) ==
  EnterLoop([maxRetries |-> maxRetries, retryCount |-> 0, pc |-> "start",
             calls |-> 0, waits |-> <<>>, caught |-> <<>>, thrown |-> "none"])

\* the external call resolved: return { summary, model, apiCallDuration }
OnResponse(v) == [v EXCEPT !.pc = "returned"]

\* if (retryCount >= maxRetries) throw error
GivesUp(v) == v.retryCount >= v.maxRetries

\* the mutant of WaitTime: a backoff that starts at one second
WaitTimeFromOneSecond(retryCount) == Pow2(retryCount - 1) * BaseBackoffMs

\* 2 ** retryCount * 1000
WaitTime(retryCount) == Pow2(retryCount) * BaseBackoffMs

\* the catch block: the error is counted, never inspected
OnError(v, err) ==
  LET w == [v EXCEPT !.retryCount = @ + 1, !.caught = Append(@, err)] IN
  IF GivesUp(w)
  THEN [w EXCEPT !.pc = "thrown", !.thrown = err]
  ELSE [w EXCEPT !.pc = "backoff", !.waits = Append(@, WaitTime(w.retryCount))]

\* the backoff timer fired: back to the top of the loop
OnBackoffElapsed(v) == EnterLoop(v)

(***************************************************************************)
(* RateLimiter (session server) and SimpleRateLimiter (server.js).         *)
(* limiter is one limiter object with the clock: now is Date.now().  The   *)
(* callers are numbered in the order of their calls; granted lists who was *)
(* let through and when, served lists the callers resolved from the        *)
(* waiting queue, intervalRuns counts the runs of the interval callback    *)
(* modulo 2, sleeping is the set of SimpleRateLimiter callers suspended in *)
(* their 1-second sleep.                                                   *)
(***************************************************************************)
TickMs == WindowMs \div TicksPerWindow

\* constructor(maxRequestsPerMinute)
NewLimiter(kind, maxRequestsPerMinute) ==
  [ kind |-> kind,
    maxRequestsPerMinute |-> maxRequestsPerMinute,
    requestTimestamps |-> <<>>,
    waitingQueue |-> <<>>,
    processing |-> FALSE,
    sleeping |-> {},
    now |-> 0,
    callers |-> 0,
    granted |-> <<>>,
    served |-> <<>>,
    intervalRuns |-> 0 ]

\* requestTimestamps.filter(timestamp => now - timestamp < 60000)
Prune(l) ==
  [l EXCEPT !.requestTimestamps = SelectSeq(@, LAMBDA t : l.now - t < WindowMs)]

\* a test that lets one request more through
HasRoomInclusive(l) == Len(l.requestTimestamps) <= l.maxRequestsPerMinute

\* canMakeRequest(), after its filter
HasRoom(l) == Len(l.requestTimestamps) < l.maxRequestsPerMinute

\* recordRequest(), and the caller goes on
Grant(l, c) ==
  [l EXCEPT !.requestTimestamps = Append(@, l.now),
            !.granted = Append(@, [caller |-> c, at |-> l.now])]

\* RateLimiter.waitForAvailableSlot()
WaitForAvailableSlot(l) ==
  LET c == l.callers + 1
      p == [Prune(l) EXCEPT !.callers = c]
  IN IF HasRoom(p) THEN Grant(p, c)
     ELSE [p EXCEPT !.waitingQueue = Append(@, c), !.processing = TRUE]

\* an interval callback that resolves the waiter that came last
IntervalCallbackLifo(l) ==
  LET p == Prune(l)
      n == Len(p.waitingQueue)
      q == IF HasRoom(p) /\ n > 0
           THEN [Grant(p, p.waitingQueue[n]) EXCEPT
                    !.waitingQueue = SubSeq(@, 1, n - 1),
                    !.served = Append(@, p.waitingQueue[n])]
           ELSE p
      r == [q EXCEPT !.intervalRuns = 1 - @]
  IN IF Len(r.waitingQueue) = 0 THEN [r EXCEPT !.processing = FALSE] ELSE r

\* the 100 ms interval callback of RateLimiter.processQueue():
\* recordRequest(); resolve = waitingQueue.shift(); resolve()
IntervalCallback(l) ==
  LET p == Prune(l)
      q == IF HasRoom(p) /\ Len(p.waitingQueue) > 0
           THEN [Grant(p, Head(p.waitingQueue)) EXCEPT
                    !.waitingQueue = Tail(@),
                    !.served = Append(@, Head(p.waitingQueue))]
           ELSE p
      r == [q EXCEPT !.intervalRuns = 1 - @]
  IN IF Len(r.waitingQueue) = 0 THEN [r EXCEPT !.processing = FALSE] ELSE r

\* SimpleRateLimiter.waitForSlot() up to its first sleep, or through to the push
WaitForSlot(l) ==
  LET c == l.callers + 1
      p == [Prune(l) EXCEPT !.callers = c]
  IN IF HasRoom(p) THEN Grant(p, c)
     ELSE [p EXCEPT !.sleeping = @ \cup {c}]

\* the 1-second sleep of caller c is over: the loop tests canMakeRequest() again
WakeUp(l, c) ==
  LET p == Prune(l) IN
  IF HasRoom(p) THEN [Grant(p, c) EXCEPT !.sleeping = @ \ {c}]
  ELSE p

(***************************************************************************)
(* chunkText of utils/textProcessing.ts and of the session server.  A text *)
(* is a sequence of characters, indexed from 0 as in the source.           *)
(***************************************************************************)
\* no call of chunkText is under way
NoChunker == [version |-> "none"]

NotFound == 0 - 1
Backquote == "'"       \* stands for the backquote character
Fence == <<Backquote, Backquote, Backquote>>
ParagraphBreak == <<"\n", "\n">>
LineBreak == <<"\n">>
SentenceEnders ==
  << <<".", " ">>, <<"!", " ">>, <<"?", " ">>, <<".", "\n">>, <<"!", "\n">>, <<"?", "\n">> >>
Whitespace == {" ", "\n"}

\* text.substring(from, to) for 0 <= from <= to: an index above text.length
\* is taken as text.length
Substring(text, from, to) == SubSeq(text, Min(from, Len(text)) + 1, Min(to, Len(text)))

\* pat occurs in text at index i
OccursAt(text, pat, i) ==
  /\ i >= 0
  /\ i + Len(pat) <= Len(text)
  /\ \A k \in 1..Len(pat) : text[i + k] = pat[k]

\* text.lastIndexOf(pat, position)
LastIndexOf(text, pat, position) ==
  LET at == {i \in 0..Min(position, Len(text) - Len(pat)) : OccursAt(text, pat, i)}
  IN IF at = {} THEN NotFound ELSE CHOOSE i \in at : \A j \in at : j <= i

\* text.indexOf(pat, position)
IndexOf(text, pat, position) ==
  LET at == {i \in position..(Len(text) - Len(pat)) : OccursAt(text, pat, i)}
  IN IF at = {} THEN NotFound ELSE CHOOSE i \in at : \A j \in at : i <= j

\* the matches of /```[\s\S]*?```/g from lastIndex on: the first fence and the
\* nearest fence after it, then on from the end of the match
RECURSIVE CodeBlocksFrom(_, _)
CodeBlocksFrom(text, lastIndex) ==
  LET start == IndexOf(text, Fence, lastIndex)
      close == IF start = NotFound THEN NotFound ELSE IndexOf(text, Fence, start + 3)
  IN IF close = NotFound THEN <<>>
     ELSE <<[start |-> start, end |-> close + 3]>> \o CodeBlocksFrom(text, close + 3)

CodeBlocks(text) == CodeBlocksFrom(text, 0)

\* ^ under the m flag
LineStart(text, i) == i = 0 \/ text[i] = "\n"

\* the end of the match of /^#{1,6}\s+.+$/m at index i, or NotFound: one to six
\* #, then whitespace, then at least one character that is no newline, up to
\* the end of its line
HeaderEnd(text, i) ==
  LET n == Len(text)
      hashes == CHOOSE h \in 0..(n - i) : /\ \A k \in i..(i + h - 1) : text[k + 1] = "#"
                                    /\ (i + h = n \/ text[i + h + 1] # "#")
      p == i + hashes
      spaces == CHOOSE w \in 0..(n - p) : /\ \A k \in p..(p + w - 1) : text[k + 1] \in Whitespace
                                    /\ (p + w = n \/ text[p + w + 1] \notin Whitespace)
      from == {j \in (p + 1)..(p + spaces) : j < n /\ text[j + 1] # "\n"}
  IN IF ~LineStart(text, i) \/ hashes < 1 \/ hashes > 6 \/ spaces < 1 \/ from = {}
     THEN NotFound
     ELSE LET j == CHOOSE x \in from : \A y \in from : y <= x
              nl == IndexOf(text, LineBreak, j)
          IN IF nl = NotFound THEN n ELSE nl

\* the match.index of every match of the header regex under the g flag
RECURSIVE HeadersFrom(_, _)
HeadersFrom(text, lastIndex) ==
  LET at == {i \in lastIndex..(Len(text) - 1) : HeaderEnd(text, i) # NotFound} IN
  IF at = {} THEN <<>>
  ELSE LET i == CHOOSE x \in at : \A y \in at : x <= y
       IN <<i>> \o HeadersFrom(text, HeaderEnd(text, i))

Headers(text) == HeadersFrom(text, 0)

\* the loop over codeBlocks: the first block that the cut
\* would go through moves the cut to its end
AvoidCodeBlock(blocks, currentIndex, endIndex) ==
  LET cut == {k \in 1..Len(blocks) : /\ currentIndex < blocks[k].end
                                      /\ endIndex > blocks[k].start
                                      /\ endIndex < blocks[k].end}
  IN IF cut = {} THEN endIndex
     ELSE blocks[CHOOSE k \in cut : \A j \in cut : k <= j].end

\* a search that tries the kinds of boundary from the lowest quality up
LowestBoundary(text, headers, lim, currentIndex, endIndex) ==
  LET nearbyHeaders == SelectSeq(headers, LAMBDA h :
                          h > currentIndex /\ h < endIndex /\ h > endIndex - lim.headerWindow)
      paragraphBreak == LastIndexOf(text, ParagraphBreak, endIndex)
      lineBreak == LastIndexOf(text, LineBreak, endIndex)
      ends == {e \in {LastIndexOf(text, SentenceEnders[k], endIndex) :
                         k \in 1..Len(SentenceEnders)} :
                  e > currentIndex /\ e > endIndex - lim.sentenceWindow}
  IN IF ends # {}
       THEN [bestBoundary |-> (CHOOSE e \in ends : \A f \in ends : f <= e) + 2,
             boundaryQuality |-> 1]
     ELSE IF lineBreak > currentIndex /\ lineBreak > endIndex - lim.lineWindow
       THEN [bestBoundary |-> lineBreak + 1, boundaryQuality |-> 2]
     ELSE IF paragraphBreak > currentIndex /\ paragraphBreak > endIndex - lim.paragraphWindow
       THEN [bestBoundary |-> paragraphBreak + 2, boundaryQuality |-> 3]
     ELSE IF Len(nearbyHeaders) > 0
       THEN [bestBoundary |-> nearbyHeaders[1], boundaryQuality |-> 4]
     ELSE [bestBoundary |-> endIndex, boundaryQuality |-> 0]

\* the search for the best boundary near endIndex: [bestBoundary, boundaryQuality]
BestBoundary(text, headers, lim, currentIndex, endIndex) ==
  LET nearbyHeaders == SelectSeq(headers, LAMBDA h :
                          h > currentIndex /\ h < endIndex /\ h > endIndex - lim.headerWindow)
      paragraphBreak == LastIndexOf(text, ParagraphBreak, endIndex)
      lineBreak == LastIndexOf(text, LineBreak, endIndex)
      ends == {e \in {LastIndexOf(text, SentenceEnders[k], endIndex) :
                         k \in 1..Len(SentenceEnders)} :
                  e > currentIndex /\ e > endIndex - lim.sentenceWindow}
      bestSentenceEnd == IF ends = {} THEN NotFound
                         ELSE CHOOSE e \in ends : \A f \in ends : f <= e
  IN IF Len(nearbyHeaders) > 0
       THEN [bestBoundary |-> nearbyHeaders[1], boundaryQuality |-> 4]
     ELSE IF paragraphBreak > currentIndex /\ paragraphBreak > endIndex - lim.paragraphWindow
       THEN [bestBoundary |-> paragraphBreak + 2, boundaryQuality |-> 3]
     ELSE IF lineBreak > currentIndex /\ lineBreak > endIndex - lim.lineWindow
       THEN [bestBoundary |-> lineBreak + 1, boundaryQuality |-> 2]
     ELSE IF bestSentenceEnd > 0
       THEN [bestBoundary |-> bestSentenceEnd + 2, boundaryQuality |-> 1]
     ELSE [bestBoundary |-> endIndex, boundaryQuality |-> 0]

\* an iteration whose tentative endIndex is not held at the end of the text
NextCutUnclamped(text, blocks, headers, lim, size, currentIndex) ==
  LET endIndex == AvoidCodeBlock(blocks, currentIndex, currentIndex + size)
      best == BestBoundary(text, headers, lim, currentIndex, endIndex)
  IN IF endIndex < Len(text) /\ best.boundaryQuality > 0 THEN best.bestBoundary
     ELSE endIndex

\* one iteration of `while (currentIndex < text.length)`: the endIndex of the chunk
NextCut(text, blocks, headers, lim, size, currentIndex) ==
  LET endIndex == AvoidCodeBlock(blocks, currentIndex, Min(currentIndex + size, Len(text)))
      best == BestBoundary(text, headers, lim, currentIndex, endIndex)
  IN IF endIndex < Len(text) /\ best.boundaryQuality > 0 THEN best.bestBoundary
     ELSE endIndex

\* the loop: chunks.push(text.substring(currentIndex, endIndex))
RECURSIVE SplitFrom(_, _, _, _, _, _, _)
SplitFrom(chunks, text, blocks, headers, lim, size, currentIndex) ==
  IF currentIndex < Len(text)
  THEN LET endIndex == NextCut(text, blocks, headers, lim, size, currentIndex) IN
       SplitFrom(Append(chunks, Substring(text, currentIndex, endIndex)),
                 text, blocks, headers, lim, size, endIndex)
  ELSE chunks

\* const chunks = [] of a call whose array kept the chunks of the call before
KeptChunks(kept) == kept

\* const chunks = []: every call starts with an array of its own
NewChunks(kept) == <<>>

\* chunkText(text, maxChunkSize) of utils/textProcessing.ts; kept is what the
\* call before left behind
ChunkText(kept, text, maxChunkSize, lim) ==
  IF Len(text) <= maxChunkSize THEN <<text>>
  ELSE SplitFrom(NewChunks(kept), text, CodeBlocks(text), Headers(text), lim,
                 maxChunkSize, 0)

\* getOptimalChunkSize(textLength)
GetOptimalChunkSize(textLength, lim) ==
  IF textLength <= lim.maxSafeChars THEN textLength
  ELSE IF textLength <= lim.maxSafeChars * 2 THEN CeilDiv(textLength, 2)
  ELSE lim.maxSafeChars

\* the merge of the small chunks into the chunk before them
RECURSIVE MergeSmall(_, _, _, _, _)
MergeSmall(mergedChunks, chunks, i, maxChunkSize, lim) ==
  IF i > Len(chunks) THEN mergedChunks
  ELSE LET currentChunk == chunks[i]
           previousChunk == mergedChunks[Len(mergedChunks)]
       IN IF Len(currentChunk) < lim.minChunkSize /\ i > 1
               /\ Len(previousChunk) + Len(currentChunk) <= maxChunkSize
          THEN MergeSmall([mergedChunks EXCEPT ![Len(mergedChunks)] =
                              previousChunk \o ParagraphBreak \o currentChunk],
                          chunks, i + 1, maxChunkSize, lim)
          ELSE MergeSmall(Append(mergedChunks, currentChunk), chunks, i + 1,
                          maxChunkSize, lim)

\* chunkText(text, maxChunkSize) of the session server
ServerChunkText(kept, text, maxChunkSize, lim) ==
  IF Len(text) <= maxChunkSize THEN <<text>>
  ELSE IF Len(text) <= lim.smallDocument THEN <<text>>
  ELSE LET effectiveChunkSize == Min(maxChunkSize, GetOptimalChunkSize(Len(text), lim))
           chunks == SplitFrom(NewChunks(kept), text, CodeBlocks(text), Headers(text),
                               lim, effectiveChunkSize, 0)
       IN MergeSmall(<<>>, chunks, 1, maxChunkSize, lim)

(***************************************************************************)
(* The chunked path of summarize-stream                                    *)
(***************************************************************************)
NoStream == [phase |-> "none"]

\* the values of the summaries array
Null == [kind |-> "null", chunkIndex |-> NotFound]
Summary(chunkIndex) == [kind |-> "summary", chunkIndex |-> chunkIndex]
ContentPlaceholder == [kind |-> "[Error processing content]", chunkIndex |-> NotFound]
SectionPlaceholder == [kind |-> "[Error processing this section]", chunkIndex |-> NotFound]

\* sendEvent(event, data): the event is written to the response
SendEvent(s, event) == [s EXCEPT !.events = Append(@, event)]

\* the events sent before the text is looked at: 'processing', and 'info' for
\* a text of more than 100000 characters, here one cut into chunks of
\* MAX_CHUNK_SIZE characters
FirstEvents(length) ==
  IF length * DefaultMaxChunkSize > LargeDocument
    THEN <<"processing", "info">> ELSE <<"processing">>

\* sendEvent('result', ...) followed by a throw into the handler's catch
SendResultAndError(s) ==
  [SendEvent(SendEvent(s, "result"), "error") EXCEPT !.phase = "result"]

\* sendEvent('result', ...); cleanup(); res.end(); return
SendResult(s) == [SendEvent(s, "result") EXCEPT !.phase = "result"]

\* the handler's catch block: sendEvent('error', ...); cleanup(); res.end()
SendError(s) == [SendEvent(s, "error") EXCEPT !.phase = "error"]

\* let optimalParallelism = MAX_PARALLEL_CHUNKS; if (chunks.length <= 5) ...
OptimalParallelism(length, maxParallelChunks, maxConcurrentRequests) ==
  IF length <= SmallCount THEN 1
  ELSE IF length <= MediumCount THEN Min(MediumParallelism, maxParallelChunks)
  ELSE Min(Min(Max(MediumParallelism, CeilDiv(length, BatchDivisor)),
               maxConcurrentRequests), length)

\* const priority = chunkIndex !== undefined ? (1000 - chunkIndex) : 1000
ChunkPriority(chunkIndex) == FirstChunkPriority - chunkIndex

\* processChunkWithWorker(chunk, chunkIndex): the task is in the pool when the
\* call returns its promise
ProcessChunkWithWorker(s, chunkIndex) ==
  [s EXCEPT !.submitted = Append(@, [chunkIndex |-> chunkIndex,
                                      priority |-> ChunkPriority(chunkIndex)]),
            !.promise[chunkIndex + 1] = "pending"]

\* chunks.slice(from, to).map((chunk, idx) => processChunkWithWorker(chunk, from + idx))
RECURSIVE MapProcessChunk(_, _, _)
MapProcessChunk(s, from, to) ==
  IF from >= to THEN s
  ELSE MapProcessChunk(ProcessChunkWithWorker(s, from), from + 1, to)

BatchStart(s) == s.batchIndex * s.batchSize
BatchEnd(s) == Min(BatchStart(s) + s.batchSize, s.length)

\* the body of the batch loop up to await Promise.all(batchPromises)
StartBatch(s, batchIndex) ==
  LET b == [s EXCEPT !.batchIndex = batchIndex] IN
  [MapProcessChunk(b, BatchStart(b), BatchEnd(b))
     EXCEPT !.phase = "awaiting", !.awaiting = BatchStart(b)..(BatchEnd(b) - 1),
            !.settled = <<>>]

\* from chunkText's return to the first await of the chosen strategy
ProcessChunks(s, maxParallelChunks, maxConcurrentRequests) ==
  LET optimalParallelism ==
        OptimalParallelism(s.length, maxParallelChunks, maxConcurrentRequests)
      t == [SendEvent(s, "info") EXCEPT !.summaries = [i \in 1..s.length |-> Null]]
  IN  IF optimalParallelism = 1
        THEN [ProcessChunkWithWorker(t, 0)
                EXCEPT !.strategy = "single", !.phase = "awaiting", !.awaiting = {0}]
      ELSE IF s.length <= optimalParallelism
        THEN [MapProcessChunk(t, 0, s.length)
                EXCEPT !.strategy = "all", !.phase = "awaiting",
                       !.awaiting = 0..(s.length - 1)]
      ELSE StartBatch([SendEvent(t, "info") EXCEPT !.strategy = "batches",
                                !.batchSize = optimalParallelism,
                                !.batchCount = CeilDiv(s.length, optimalParallelism)], 0)

\* one section of the text of the result event: its header line, if any, and
\* the summary under it
Section(title, number, summary) ==
  [title |-> title, number |-> number, summary |-> summary]

\* validSummaries.map((summary, index) => ...) of the direct combination
CombinedSummary(validSummaries) ==
  [index \in 1..Len(validSummaries) |->
     IF Len(validSummaries) = 1
       THEN Section("", 0, validSummaries[index])
     ELSE IF Len(validSummaries) = 2
       THEN Section(IF index = 1 THEN "## First Part" ELSE "## Second Part", 0,
                    validSummaries[index])
     ELSE Section("## Part", index, validSummaries[index])]

\* metaSummary.summary: the text the model made of the numbered summaries
MetaSummary == [kind |-> "meta-summary", chunkIndex |-> NotFound]

\* the mutant of SkipsMetaSummary: the threshold of the batches taken for the
\* threshold of the direct combination
SkipsMetaSummaryUpToTen(validSummaries) ==
  Len(validSummaries) <= MediumCount

\* validSummaries.length <= 4 || validSummaries.length === 2
SkipsMetaSummary(validSummaries) ==
  Len(validSummaries) <= DirectCombination \/ Len(validSummaries) = 2

\* from "Chunk processing completed" to the result, the error or the await of
\* the meta-summary
Finish(s) ==
  LET validSummaries == SelectSeq(s.summaries, LAMBDA x : x # Null)
      t == [s EXCEPT !.awaiting = {}, !.settled = <<>>]
  IN  IF Len(s.summaries) = 1
        THEN SendResult([t EXCEPT !.output = <<s.summaries[1]>>,
                                  !.sections = <<Section("", 0, s.summaries[1])>>])
      ELSE IF Len(validSummaries) = 0
        THEN SendError([t EXCEPT !.error = "All chunks failed processing"])
      ELSE IF SkipsMetaSummary(validSummaries)
        THEN SendResult([SendEvent(t, "info")
                           EXCEPT !.output = validSummaries,
                                  !.sections = CombinedSummary(validSummaries)])
      ELSE [SendEvent(t, "info") EXCEPT !.phase = "meta", !.output = validSummaries,
                                        !.metaTasks = @ + 1]

\* the end of the batch loop's body: the delay before the next batch
AfterBatch(s) ==
  IF s.batchIndex < s.batchCount - 1
    THEN [s EXCEPT !.phase = "delay", !.awaiting = {}]
    ELSE Finish(s)

\* the mutant of PromiseAll: the results in the order the promises settled
PromiseAllInCompletionOrder(s) ==
  [idx \in 1..Len(s.settled) |-> Summary(s.settled[idx])]

\* the value of await Promise.all(promises): the result of each promise at the
\* position of the promise, and a task's result is the summary of the chunk
\* its taskFn closed over
PromiseAll(s) ==
  [idx \in 1..Cardinality(s.awaiting) |-> Summary(BatchStart(s) + idx - 1)]

\* results.forEach((result, idx) => { summaries[batchStart + idx] = result.summary })
StoreResults(s, results) ==
  [i \in 1..s.length |->
     IF (i - 1) \in s.awaiting THEN results[i - BatchStart(s)] ELSE s.summaries[i]]

\* the continuation of the handler after its await resolved
Resolved(s) ==
  IF s.strategy = "single"
    THEN Finish([s EXCEPT !.summaries[1] = PromiseAll(s)[1], !.completedChunks = 1])
  ELSE IF s.strategy = "all"
    THEN Finish([s EXCEPT !.summaries = StoreResults(s, PromiseAll(s)),
                          !.completedChunks = s.length, !.failedChunks = 0])
  ELSE AfterBatch(SendEvent([s EXCEPT
         !.summaries = StoreResults(s, PromiseAll(s)),
         !.completedChunks = @ + Cardinality(s.awaiting)], "progress"))

\* the catch block of the handler's await
Rejected(s) ==
  IF s.strategy = "single"
    THEN Finish([s EXCEPT !.summaries[1] = ContentPlaceholder, !.failedChunks = 1])
  ELSE IF s.strategy = "all"
    THEN Finish([s EXCEPT !.summaries = [i \in 1..s.length |-> ContentPlaceholder],
                          !.failedChunks = s.length])
  ELSE LET unset == {i \in s.awaiting : s.summaries[i + 1] = Null} IN
       AfterBatch([s EXCEPT
         !.summaries = [i \in 1..s.length |->
                          IF (i - 1) \in unset THEN SectionPlaceholder ELSE @[i]],
         !.failedChunks = @ + Cardinality(unset)])

\* a promise of processChunkWithWorker is fulfilled; Promise.all is fulfilled
\* with the last of its promises
Fulfil(s, chunkIndex) ==
  LET awaited == s.phase = "awaiting" /\ chunkIndex \in s.awaiting
      t == [s EXCEPT !.promise[chunkIndex + 1] = "fulfilled",
                     !.settled = IF awaited THEN Append(@, chunkIndex) ELSE @]
  IN  IF awaited /\ \A i \in s.awaiting : t.promise[i + 1] = "fulfilled"
        THEN Resolved(t)
        ELSE t

\* a promise of processChunkWithWorker is rejected; Promise.all is rejected
\* with the first of its promises that is
Reject(s, chunkIndex) ==
  LET t == [s EXCEPT !.promise[chunkIndex + 1] = "rejected"] IN
  IF s.phase = "awaiting" /\ chunkIndex \in s.awaiting
    THEN Rejected(t)
    ELSE t

(***************************************************************************)
(* The POST handler of the Next.js summarize route, on a text of more than *)
(* 10000 characters.  route holds the locals of POST and of the            *)
(* processChunksInParallel or processBatches call it awaits: chunks is     *)
(* chunks.length, calls lists the chunk indices passed to processChunk,    *)
(* awaiting the calls the handler is suspended on, results the chunks      *)
(* whose summaries are in the results array, failures the number of        *)
(* processChunk calls that threw.  A call left pending by a rejected       *)
(* Promise.all settles without any effect on these.                        *)
(***************************************************************************)
NoRoute == [phase |-> "none"]

\* RateLimits: maxChunksPerRequest, maxChunksTotal, maxBatches
RateLimits == [maxChunksPerRequest |-> 3, maxChunksTotal |-> 6, maxBatches |-> 2]

\* processChunk(chunk, index) is called for each index of from .. to - 1
CallProcessChunk(r, from, to) ==
  [r EXCEPT !.calls = @ \o [k \in 1..(to - from) |-> from + k - 1],
            !.awaiting = from..(to - 1),
            !.fulfilled = {}]

\* a range of indices as the sequence of its elements
Indices(from, to) == [k \in 1..(to - from) |-> from + k - 1]

\* POST from "summaries = await processChunksInParallel(...)" returning to its
\* own await or return
Return(r) ==
  LET t == [r EXCEPT !.awaiting = {}, !.fulfilled = {}] IN
  IF Len(r.results) = 1
    THEN [t EXCEPT !.phase = "response", !.processedChunks = 1]
    ELSE [t EXCEPT !.phase = "createMetaSummary"]

\* one iteration of the loop of processBatches, up to its await; the delay
\* before a batch has no effect on the locals
RECURSIVE NextBatch(_, _)
NextBatch(r, batchIndex) ==
  IF batchIndex >= r.batchCount \/ batchIndex >= RateLimits.maxBatches
    THEN Return(r)
    ELSE LET start == batchIndex * r.batchSize
             end == Min(start + r.batchSize, r.chunksToProcess)
         IN  [CallProcessChunk(r, start, end)
                EXCEPT !.phase = "batch", !.batchIndex = batchIndex,
                       !.batchChunks = Indices(start, end)]

\* processBatches(chunks, batchSize)
ProcessBatches(r, batchSize) ==
  NextBatch([r EXCEPT !.batchSize = batchSize,
                      !.batchCount = CeilDiv(r.chunksToProcess, batchSize)], 0)

\* processChunksInParallel(chunks) up to its await
ProcessChunksInParallel(r) ==
  LET maxParallelCalls == RateLimits.maxChunksPerRequest IN
  IF r.chunksToProcess > maxParallelCalls * 2
    THEN ProcessBatches(r, maxParallelCalls)
    ELSE [CallProcessChunk(r, 0, Min(r.chunksToProcess, maxParallelCalls))
            EXCEPT !.phase = "parallel"]

\* POST from chunkText's return to its first await
Post(r) ==
  ProcessChunksInParallel(
    [r EXCEPT !.chunksToProcess = Min(r.chunks, RateLimits.maxChunksTotal)])

\* the sequential loops: processChunk for the chunk at position i, or the end
\* of the loop
Sequential(r, i) ==
  IF r.phase = "sequential"
    THEN IF i < Min(r.chunksToProcess, RateLimits.maxChunksPerRequest)
           THEN [CallProcessChunk(r, i, i + 1) EXCEPT !.position = i]
           ELSE Return(r)
    ELSE IF i < Len(r.batchChunks)
           THEN [[r EXCEPT !.calls = Append(@, r.batchChunks[i + 1]),
                           !.awaiting = {r.batchChunks[i + 1]},
                           !.fulfilled = {}]
                   EXCEPT !.position = i]
           ELSE NextBatch([r EXCEPT !.phase = "batch"], r.batchIndex + 1)

\* a call of processChunk returned
OnSummary(r, index) ==
  LET t == [r EXCEPT !.fulfilled = @ \cup {index}] IN
  IF r.phase \in {"sequential", "batchSequential"}
    THEN Sequential([t EXCEPT !.results = Append(@, index)], r.position + 1)
  ELSE IF t.fulfilled # r.awaiting
    THEN t
  ELSE IF r.phase = "parallel"
    THEN Return([t EXCEPT !.results = Indices(0, Cardinality(r.awaiting))])
  ELSE NextBatch([t EXCEPT !.results = @ \o r.batchChunks], r.batchIndex + 1)

\* a call of processChunk threw
OnFailure(r, index) ==
  LET t == [r EXCEPT !.failures = @ + 1] IN
  IF r.phase = "parallel"
    THEN Sequential([t EXCEPT !.phase = "sequential", !.results = <<>>], 0)
  ELSE IF r.phase = "sequential"
    THEN [t EXCEPT !.phase = "error", !.awaiting = {}, !.fulfilled = {}]
  ELSE IF r.phase = "batch"
    THEN Sequential([t EXCEPT !.phase = "batchSequential"], 0)
  ELSE Sequential(t, r.position + 1)

(***************************************************************************)
(* Actions of the pool                                                     *)
(***************************************************************************)
InitOthers ==
  /\ invoker = <<>>
  /\ limiter = NewLimiter("RateLimiter", 1)
  /\ chunker = NoChunker
  /\ stream = NoStream
  /\ route = NoRoute

\* new WorkerPool(MAX_WORKER_POOL_SIZE, MAX_CONCURRENT_REQUESTS), with the
\* environment's values; a size above the limit is the same pool as size = limit
Init ==
  /\ \E mr \in 0..MaxRetriesCfg : config = [MAX_RETRIES |-> mr]
  /\ \E maxConc \in 1..MaxConcurrent : \E sz \in 0..(maxConc + 1) :
        pool = WorkerPool(sz, maxConc)
  /\ faults = [failures |-> 0, timeouts |-> 0]
  /\ InitOthers

\* processChunkWithWorker: workerPool.addTask(taskFn, priority, MAX_RETRIES)
AddTask ==
  /\ Len(pool.task) < MaxTasks
  /\ \E priority \in 1..MaxPriority :
        pool' = AddTaskOp(pool, priority, config.MAX_RETRIES)
  /\ UNCHANGED <<config, faults, invoker, limiter, chunker, stream, route>>

FnReturns ==
  /\ \E a \in pool.attempts : pool' = ExecuteTaskReturn(pool, a)
  /\ UNCHANGED <<config, faults, invoker, limiter, chunker, stream, route>>

FnThrows ==
  /\ faults.failures < MaxFailures
  /\ faults' = [faults EXCEPT !.failures = @ + 1]
  /\ \E a \in pool.attempts, err \in Errors : pool' = ExecuteTaskThrow(pool, a, err)
  /\ UNCHANGED <<config, invoker, limiter, chunker, stream, route>>

TimeoutFires ==
  /\ faults.timeouts < MaxTimeouts
  /\ faults' = [faults EXCEPT !.timeouts = @ + 1]
  /\ \E a \in pool.attempts : a.timer = "armed" /\ pool' = TimeoutCallback(pool, a)
  /\ UNCHANGED <<config, invoker, limiter, chunker, stream, route>>

StaleTimeoutFires ==
  /\ faults.timeouts < MaxTimeouts
  /\ faults' = [faults EXCEPT !.timeouts = @ + 1]
  /\ \E w \in DOMAIN pool.staleTimers :
        pool.staleTimers[w] > 0 /\ pool' = StaleTimeoutCallback(pool, w)
  /\ UNCHANGED <<config, invoker, limiter, chunker, stream, route>>

RetryFires ==
  /\ \E r \in pool.retryTimers : pool' = RetryCallback(pool, r)
  /\ UNCHANGED <<config, faults, invoker, limiter, chunker, stream, route>>

MetricsTick ==
  /\ pool' = UpdateRequestMetrics(pool)
  /\ UNCHANGED <<config, faults, invoker, limiter, chunker, stream, route>>

Next ==
  \/ AddTask
  \/ FnReturns
  \/ FnThrows
  \/ TimeoutFires
  \/ StaleTimeoutFires
  \/ RetryFires
  \/ MetricsTick

Spec == Init /\ [][Next]_vars

\* the pool of the server when the environment sets nothing:
\* new WorkerPool(10, 25); its size is large enough for adjustPoolSize to
\* reduce it
InitDefault ==
  /\ \E mr \in 0..MaxRetriesCfg : config = [MAX_RETRIES |-> mr]
  /\ pool = WorkerPool(DefaultPoolSize, DefaultMaxConcurrent)
  /\ faults = [failures |-> 0, timeouts |-> 0]
  /\ InitOthers

SpecDefault == InitDefault /\ [][Next]_vars

\* the tasks a pool has completed in its first five minutes, before the first
\* run of updateRequestMetrics: 0, 5.2, 12 and 14 tens of requests per minute
CompletedInFirstInterval == {0, 260, 600, 700}

\* a pool of any configured size at the end of its first five minutes, its
\* completed tasks settled and gone
InitResize ==
  /\ config = [MAX_RETRIES |-> 0]
  /\ \E sz \in {0, MinWorkers, DefaultPoolSize, LargePoolSize},
        maxConc \in {MaxConcurrent, DefaultMaxConcurrent},
        done \in CompletedInFirstInterval :
        pool = [WorkerPool(sz, maxConc) EXCEPT !.completedTasks = done]
  /\ faults = [failures |-> 0, timeouts |-> 0]
  /\ InitOthers

NextResize ==
  \/ AddTask
  \/ FnReturns
  \/ MetricsTick

SpecResize == InitResize /\ [][NextResize]_vars

\* the event loop runs every callback that is due: a call that was started ends,
\* a timer that stays armed fires.  Nothing obliges a caller to add a task or a
\* call to outlast REQUEST_TIMEOUT.
SpecLive ==
  /\ Init /\ [][Next]_vars
  /\ WF_vars(FnReturns \/ FnThrows)
  /\ WF_vars(StaleTimeoutFires)
  /\ WF_vars(RetryFires)
  /\ WF_vars(MetricsTick)

(***************************************************************************)
(* The queue of a pool with one worker and one concurrent request, where   *)
(* every step dispatches at most one task.                                 *)
(***************************************************************************)
InitQueue ==
  /\ \E mr \in 0..MaxRetriesCfg : config = [MAX_RETRIES |-> mr]
  /\ pool = WorkerPool(1, 1)
  /\ faults = [failures |-> 0, timeouts |-> 0]
  /\ InitOthers

\* workerPool.addTask(taskFn, priority, MAX_RETRIES) by any of the requests
\* that share the pool
SubmitTask ==
  /\ Len(pool.task) < QueueTasks
  /\ \E priority \in 1..QueuePriorities :
        pool' = AddTaskOp(pool, priority, config.MAX_RETRIES)
  /\ UNCHANGED <<config, faults, invoker, limiter, chunker, stream, route>>

NextQueue ==
  \/ SubmitTask
  \/ FnReturns
  \/ FnThrows
  \/ RetryFires

SpecQueue == InitQueue /\ [][NextQueue]_vars

(***************************************************************************)
(* The retries of the tasks of a one-worker pool, up to a retry budget     *)
(* whose last backoff reaches the cap of 30 seconds.                       *)
(***************************************************************************)
InitRetry ==
  /\ \E mr \in (0..MaxRetriesCfg) \cup {DefaultMaxRetries, CappedRetries} :
        config = [MAX_RETRIES |-> mr]
  /\ pool = WorkerPool(1, 1)
  /\ faults = [failures |-> 0, timeouts |-> 0]
  /\ InitOthers

\* `await task.fn()` throws, as often as the retry budget of the task lets it run
AttemptThrows ==
  /\ \E a \in pool.attempts, err \in Errors : pool' = ExecuteTaskThrow(pool, a, err)
  /\ UNCHANGED <<config, faults, invoker, limiter, chunker, stream, route>>

NextRetry ==
  \/ AddTask
  \/ FnReturns
  \/ AttemptThrows
  \/ RetryFires

SpecRetry == InitRetry /\ [][NextRetry]_vars

(***************************************************************************)
(* Calls of chunkText.  chunker holds the arguments of the call, the       *)
(* results returned so far for them and what the last call left behind.    *)
(***************************************************************************)
Pieces == { <<"a">>, <<"\n">>, <<".", " ">>, <<"#", " ">>, Fence }

RECURSIVE TextsOf(_)
TextsOf(n) ==
  IF n = 0 THEN {<<>>}
  ELSE LET shorter == TextsOf(n - 1) IN
       shorter \cup {t \o p : t \in shorter, p \in Pieces}

Texts == TextsOf(MaxPieces) \ {<<>>}

\* the thresholds written in the source
SourceLimits ==
  [headerWindow |-> HeaderWindow, paragraphWindow |-> HeaderWindow,
   lineWindow |-> LineWindow, sentenceWindow |-> SentenceWindow,
   smallDocument |-> SmallDocument, minChunkSize |-> MinChunkSize,
   maxSafeChars |-> MaxSafeChars]

\* the same thresholds at the scale of the texts of the model
ShortLimits ==
  [headerWindow |-> ShortHeaderWindow, paragraphWindow |-> ShortHeaderWindow,
   lineWindow |-> ShortLineWindow, sentenceWindow |-> ShortSentenceWindow,
   smallDocument |-> ShortDocument, minChunkSize |-> ShortChunk,
   maxSafeChars |-> MaxSafeChars]

Versions == {"textProcessing.ts", "session server"}

\* the chunks pushed by the splitting loop of the version in use, none when
\* the call returns before the loop
Split(c, text) ==
  IF Len(text) <= c.maxChunkSize THEN <<>>
  ELSE IF c.version = "textProcessing.ts"
    THEN SplitFrom(NewChunks(c.kept), text, CodeBlocks(text), Headers(text), c.lim,
                   c.maxChunkSize, 0)
  ELSE IF Len(text) <= c.lim.smallDocument THEN <<>>
  ELSE SplitFrom(NewChunks(c.kept), text, CodeBlocks(text), Headers(text), c.lim,
                 Min(c.maxChunkSize, GetOptimalChunkSize(Len(text), c.lim)), 0)

\* chunkText of the version in use
Chunks(c, text) ==
  IF c.version = "textProcessing.ts"
  THEN ChunkText(c.kept, text, c.maxChunkSize, c.lim)
  ELSE ServerChunkText(c.kept, text, c.maxChunkSize, c.lim)

InitChunker ==
  /\ config = [MAX_RETRIES |-> 0]
  /\ pool = WorkerPool(DefaultPoolSize, DefaultMaxConcurrent)
  /\ faults = [failures |-> 0, timeouts |-> 0]
  /\ invoker = <<>>
  /\ limiter = NewLimiter("RateLimiter", 1)
  /\ \E version \in Versions, lim \in {SourceLimits, ShortLimits},
        text \in Texts, maxChunkSize \in 1..MaxChunkSize :
        chunker = [version |-> version, lim |-> lim, text |-> text,
                   maxChunkSize |-> maxChunkSize, kept |-> <<>>, returned |-> <<>>,
                   split |-> <<>>, between |-> FALSE]
  /\ stream = NoStream
  /\ route = NoRoute

\* chunkText(text, maxChunkSize)
CallChunkText ==
  /\ Len(chunker.returned) < MaxCalls
  /\ LET chunks == Chunks(chunker, chunker.text) IN
       chunker' = [chunker EXCEPT !.returned = Append(@, chunks), !.kept = chunks,
                                  !.split = Split(chunker, chunker.text)]
  /\ UNCHANGED <<config, pool, faults, invoker, limiter, stream, route>>

\* a call on another text between two calls on the same text
CallOnOtherText ==
  /\ Len(chunker.returned) = 1
  /\ ~chunker.between
  /\ chunker' = [chunker EXCEPT !.kept = Chunks(chunker, Tail(chunker.text)),
                                !.between = TRUE]
  /\ UNCHANGED <<config, pool, faults, invoker, limiter, stream, route>>

NextChunker ==
  \/ CallChunkText
  \/ CallOnOtherText

SpecChunker == InitChunker /\ [][NextChunker]_vars

\* the session server's chunkText on longer texts of letters and newlines,
\* which its merge of the small chunks needs
LineTexts ==
  UNION {[1..n -> {"a", "\n"}] : n \in 1..MaxLineText}

LineTextLimits ==
  [headerWindow |-> LineTextWindow, paragraphWindow |-> LineTextWindow,
   lineWindow |-> LineTextWindow, sentenceWindow |-> LineTextWindow,
   smallDocument |-> LineTextDocument, minChunkSize |-> LineTextChunk,
   maxSafeChars |-> MaxSafeChars]

InitServerChunker ==
  /\ config = [MAX_RETRIES |-> 0]
  /\ pool = WorkerPool(DefaultPoolSize, DefaultMaxConcurrent)
  /\ faults = [failures |-> 0, timeouts |-> 0]
  /\ invoker = <<>>
  /\ limiter = NewLimiter("RateLimiter", 1)
  /\ \E text \in LineTexts, maxChunkSize \in 1..MaxLineChunkSize :
        chunker = [version |-> "session server", lim |-> LineTextLimits, text |-> text,
                   maxChunkSize |-> maxChunkSize, kept |-> <<>>, returned |-> <<>>,
                   split |-> <<>>, between |-> FALSE]
  /\ stream = NoStream
  /\ route = NoRoute

NextServerChunker == CallChunkText

SpecServerChunker == InitServerChunker /\ [][NextServerChunker]_vars

(***************************************************************************)
(* Actions of the chunked path of summarize-stream                         *)
(***************************************************************************)
\* one request: a text of more than 10000 characters that chunkText cut into
\* 1..MaxChunks chunks, or a text of at most 10000 characters, for which the
\* handler awaits processChunkWithWorker(text)
InitStream ==
  /\ config \in {[MAX_RETRIES |-> 0, MAX_PARALLEL_CHUNKS |-> DefaultMaxParallelChunks,
                   MAX_CONCURRENT_REQUESTS |-> DefaultMaxConcurrent],
                  [MAX_RETRIES |-> 0, MAX_PARALLEL_CHUNKS |-> SmallParallelChunks,
                   MAX_CONCURRENT_REQUESTS |-> SmallConcurrentRequests]}
  /\ pool = WorkerPool(DefaultPoolSize, DefaultMaxConcurrent)
  /\ faults = [failures |-> 0, timeouts |-> 0]
  /\ invoker = <<>>
  /\ limiter = NewLimiter("RateLimiter", 1)
  /\ chunker = NoChunker
  /\ \E length \in 0..MaxChunks :
        stream = [phase |-> IF length = 0 THEN "small" ELSE "chunked",
                  events |-> FirstEvents(length),
                  length |-> length, strategy |-> "none",
                  batchSize |-> 0, batchCount |-> 0, batchIndex |-> 0,
                  summaries |-> <<>>, promise |-> [i \in 1..length |-> "none"],
                  submitted |-> <<>>, awaiting |-> {}, completedChunks |-> 0,
                  failedChunks |-> 0, output |-> <<>>, settled |-> <<>>,
                  sections |-> <<>>, metaTasks |-> 0, error |-> "none"]
  /\ route = NoRoute

\* the handler after chunkText returned
ChunksProcessed ==
  /\ stream.phase = "chunked"
  /\ stream' = ProcessChunks(stream, config.MAX_PARALLEL_CHUNKS,
                             config.MAX_CONCURRENT_REQUESTS)
  /\ UNCHANGED <<config, pool, faults, invoker, limiter, chunker, route>>

\* the pool resolves the promise of a chunk's task
ChunkSucceeds ==
  /\ \E chunkIndex \in 0..(stream.length - 1) :
        /\ stream.promise[chunkIndex + 1] = "pending"
        /\ stream' = Fulfil(stream, chunkIndex)
  /\ UNCHANGED <<config, pool, faults, invoker, limiter, chunker, route>>

\* the pool rejects the promise of a chunk's task after its last retry
ChunkFails ==
  /\ \E chunkIndex \in 0..(stream.length - 1) :
        /\ stream.promise[chunkIndex + 1] = "pending"
        /\ stream' = Reject(stream, chunkIndex)
  /\ UNCHANGED <<config, pool, faults, invoker, limiter, chunker, route>>

\* setTimeout(resolve, batchDelay) between two batches
BatchDelayElapses ==
  /\ stream.phase = "delay"
  /\ stream' = StartBatch(stream, stream.batchIndex + 1)
  /\ UNCHANGED <<config, pool, faults, invoker, limiter, chunker, route>>

\* await workerPool.addTask(metaSummaryTask, 2000) resolves
MetaSummaryReturns ==
  /\ stream.phase = "meta"
  /\ stream' = SendResult([stream EXCEPT !.sections = <<Section("", 0, MetaSummary)>>])
  /\ UNCHANGED <<config, pool, faults, invoker, limiter, chunker, route>>

\* await workerPool.addTask(metaSummaryTask, 2000) rejects: the handler's catch
MetaSummaryFails ==
  /\ stream.phase = "meta"
  /\ stream' = SendError([stream EXCEPT !.output = <<>>, !.error = "meta-summary"])
  /\ UNCHANGED <<config, pool, faults, invoker, limiter, chunker, route>>

\* processChunkWithWorker(text) of a small text returns: the result event
SmallContentReturns ==
  /\ stream.phase = "small"
  /\ stream' = [SendEvent(stream, "result") EXCEPT !.phase = "small result"]
  /\ UNCHANGED <<config, pool, faults, invoker, limiter, chunker, route>>

\* processChunkWithWorker(text) of a small text throws: the handler's catch
SmallContentThrows ==
  /\ stream.phase = "small"
  /\ stream' = [SendEvent(stream, "error") EXCEPT !.phase = "small error"]
  /\ UNCHANGED <<config, pool, faults, invoker, limiter, chunker, route>>

NextStream ==
  \/ SmallContentReturns
  \/ SmallContentThrows
  \/ ChunksProcessed
  \/ ChunkSucceeds
  \/ ChunkFails
  \/ BatchDelayElapses
  \/ MetaSummaryReturns
  \/ MetaSummaryFails

SpecStream == InitStream /\ [][NextStream]_vars

\* the event loop runs the continuation of the handler when what it awaits
\* settles, and the pool settles the promise of every task it was given
SpecStreamLive == SpecStream /\ WF_vars(NextStream)

(***************************************************************************)
(* Actions of the POST handler of the summarize route                      *)
(***************************************************************************)
\* one request whose text chunkText cut into 1..MaxRouteChunks chunks
InitRoute ==
  /\ config = [MAX_RETRIES |-> 0]
  /\ pool = WorkerPool(DefaultPoolSize, DefaultMaxConcurrent)
  /\ faults = [failures |-> 0, timeouts |-> 0]
  /\ invoker = <<>>
  /\ limiter = NewLimiter("RateLimiter", 1)
  /\ chunker = NoChunker
  /\ stream = NoStream
  /\ \E chunks \in 1..MaxRouteChunks :
        route = [phase |-> "chunked", chunks |-> chunks, chunksToProcess |-> 0,
                 calls |-> <<>>, awaiting |-> {}, fulfilled |-> {}, results |-> <<>>,
                 failures |-> 0, position |-> 0, batchSize |-> 0, batchCount |-> 0,
                 batchIndex |-> 0, batchChunks |-> <<>>, processedChunks |-> 0]

\* POST after chunkText returned
ChunksSliced ==
  /\ route.phase = "chunked"
  /\ route' = Post(route)
  /\ UNCHANGED <<config, pool, faults, invoker, limiter, chunker, stream>>

\* a call of processChunk the handler awaits returns its summary
ProcessChunkReturns ==
  /\ route.phase \in {"parallel", "sequential", "batch", "batchSequential"}
  /\ \E index \in route.awaiting \ route.fulfilled : route' = OnSummary(route, index)
  /\ UNCHANGED <<config, pool, faults, invoker, limiter, chunker, stream>>

\* a call of processChunk the handler awaits throws after its retries
ProcessChunkThrows ==
  /\ route.phase \in {"parallel", "sequential", "batch", "batchSequential"}
  /\ \E index \in route.awaiting \ route.fulfilled : route' = OnFailure(route, index)
  /\ UNCHANGED <<config, pool, faults, invoker, limiter, chunker, stream>>

\* createMetaSummary(summaryTexts, chunks.length) returns: the response with
\* processedChunks: chunksToProcess.length
CreateMetaSummaryReturns ==
  /\ route.phase = "createMetaSummary"
  /\ route' = [route EXCEPT !.phase = "response",
                            !.processedChunks = route.chunksToProcess]
  /\ UNCHANGED <<config, pool, faults, invoker, limiter, chunker, stream>>

\* createMetaSummary throws: the catch block of POST answers with the error
CreateMetaSummaryThrows ==
  /\ route.phase = "createMetaSummary"
  /\ route' = [route EXCEPT !.phase = "error"]
  /\ UNCHANGED <<config, pool, faults, invoker, limiter, chunker, stream>>

NextRoute ==
  \/ ChunksSliced
  \/ ProcessChunkReturns
  \/ ProcessChunkThrows
  \/ CreateMetaSummaryReturns
  \/ CreateMetaSummaryThrows

SpecRoute == InitRoute /\ [][NextRoute]_vars

(***************************************************************************)
(* Actions of the invoker                                                  *)
(***************************************************************************)
InitInvoker ==
  /\ \E mr \in 0..MaxRetriesCfg : config = [MAX_RETRIES |-> mr]
  /\ pool = WorkerPool(DefaultPoolSize, DefaultMaxConcurrent)
  /\ faults = [failures |-> 0, timeouts |-> 0]
  /\ invoker = <<>>
  /\ limiter = NewLimiter("RateLimiter", 1)
  /\ chunker = NoChunker
  /\ stream = NoStream
  /\ route = NoRoute

\* the session server reads MAX_RETRIES, server.js has its own constant
Invoke ==
  /\ Len(invoker) < MaxInvocations
  /\ \E maxRetries \in {config.MAX_RETRIES, ServerMaxRetries} :
        invoker' = Append(invoker, ProcessChunk(maxRetries))
  /\ UNCHANGED <<config, pool, faults, limiter, chunker, stream, route>>

CallResolves ==
  /\ \E i \in 1..Len(invoker) :
        /\ invoker[i].pc = "calling"
        /\ invoker' = [invoker EXCEPT ![i] = OnResponse(@)]
  /\ UNCHANGED <<config, pool, faults, limiter, chunker, stream, route>>

CallRejects ==
  /\ \E i \in 1..Len(invoker), err \in Errors :
        /\ invoker[i].pc = "calling"
        /\ invoker' = [invoker EXCEPT ![i] = OnError(@, err)]
  /\ UNCHANGED <<config, pool, faults, limiter, chunker, stream, route>>

BackoffElapses ==
  /\ \E i \in 1..Len(invoker) :
        /\ invoker[i].pc = "backoff"
        /\ invoker' = [invoker EXCEPT ![i] = OnBackoffElapsed(@)]
  /\ UNCHANGED <<config, pool, faults, limiter, chunker, stream, route>>

NextInvoker ==
  \/ Invoke
  \/ CallResolves
  \/ CallRejects
  \/ BackoffElapses

SpecInvoker == InitInvoker /\ [][NextInvoker]_vars

(***************************************************************************)
(* One chunk from processChunkWithWorker to the settling of its promise:   *)
(* the task of the pool whose fn is processChunk.  invoker lists the       *)
(* invocations of processChunk made by the executions of the task, the     *)
(* last one being the one of the latest execution.                         *)
(***************************************************************************)
InitDelivery ==
  /\ \E mr \in (0..MaxRetriesCfg) \cup {DefaultMaxRetries} : config = [MAX_RETRIES |-> mr]
  /\ pool = WorkerPool(DefaultPoolSize, DefaultMaxConcurrent)
  /\ faults = [failures |-> 0, timeouts |-> 0]
  /\ invoker = <<>>
  /\ limiter = NewLimiter("RateLimiter", DefaultRequestsPerMinute)
  /\ chunker = NoChunker
  /\ stream = NoStream
  /\ route = NoRoute

\* the limiter after a step of the pool: taskFn awaits
\* rateLimiter.waitForAvailableSlot() once, before it calls processChunk
SlotAwaited(p, q, l) ==
  IF \E a \in q.attempts : a \notin p.attempts
    THEN WaitForAvailableSlot(l)
    ELSE l

\* the invocations of processChunk after a step of the pool: task.fn() was
\* called if the step started an execution of the task
FnCalled(p, q, calls) ==
  IF \E a \in q.attempts : a \notin p.attempts
    THEN Append(calls, ProcessChunk(config.MAX_RETRIES))
    ELSE calls

\* processChunkWithWorker(chunk, 0), once
SubmitChunk ==
  /\ pool.task = <<>>
  /\ pool' = AddTaskOp(pool, ChunkPriority(0), config.MAX_RETRIES)
  /\ limiter' = SlotAwaited(pool, pool', limiter)
  /\ invoker' = FnCalled(pool, pool', invoker)
  /\ UNCHANGED <<config, faults, chunker, stream, route>>

\* processChunk returned: taskFn returns its result to executeTask
TaskFnReturns ==
  /\ invoker # <<>>
  /\ invoker[Len(invoker)].pc = "returned"
  /\ \E a \in pool.attempts : pool' = ExecuteTaskReturn(pool, a)
  /\ UNCHANGED <<config, faults, invoker, limiter, chunker, stream, route>>

\* processChunk threw: executeTask catches what it threw
TaskFnThrows ==
  /\ invoker # <<>>
  /\ invoker[Len(invoker)].pc = "thrown"
  /\ \E a \in pool.attempts :
        pool' = ExecuteTaskThrow(pool, a, invoker[Len(invoker)].thrown)
  /\ UNCHANGED <<config, faults, invoker, limiter, chunker, stream, route>>

\* the backoff callback of the pool: the task is queued again and dispatched
TaskRetryFires ==
  /\ \E r \in pool.retryTimers : pool' = RetryCallback(pool, r)
  /\ limiter' = SlotAwaited(pool, pool', limiter)
  /\ invoker' = FnCalled(pool, pool', invoker)
  /\ UNCHANGED <<config, faults, chunker, stream, route>>

NextDelivery ==
  \/ SubmitChunk
  \/ CallResolves
  \/ CallRejects
  \/ BackoffElapses
  \/ TaskFnReturns
  \/ TaskFnThrows
  \/ TaskRetryFires
  \/ TimeoutFires
  \/ StaleTimeoutFires

SpecDelivery == InitDelivery /\ [][NextDelivery]_vars

(***************************************************************************)
(* Actions of the rate limiters                                            *)
(***************************************************************************)
InitLimiter ==
  /\ config = [MAX_RETRIES |-> 0]
  /\ pool = WorkerPool(DefaultPoolSize, DefaultMaxConcurrent)
  /\ faults = [failures |-> 0, timeouts |-> 0]
  /\ invoker = <<>>
  /\ \E kind \in {"RateLimiter", "SimpleRateLimiter"}, rate \in 1..MaxRate :
        limiter = NewLimiter(kind, rate)
  /\ chunker = NoChunker
  /\ stream = NoStream
  /\ route = NoRoute

CallerArrives ==
  /\ limiter.kind = "RateLimiter"
  /\ limiter.callers < MaxCallers
  /\ limiter' = WaitForAvailableSlot(limiter)
  /\ UNCHANGED <<config, pool, faults, invoker, chunker, stream, route>>

IntervalFires ==
  /\ limiter.kind = "RateLimiter"
  /\ limiter.processing
  /\ limiter' = IntervalCallback(limiter)
  /\ UNCHANGED <<config, pool, faults, invoker, chunker, stream, route>>

SimpleCallerArrives ==
  /\ limiter.kind = "SimpleRateLimiter"
  /\ limiter.callers < MaxCallers
  /\ limiter' = WaitForSlot(limiter)
  /\ UNCHANGED <<config, pool, faults, invoker, chunker, stream, route>>

SleepEnds ==
  /\ limiter.kind = "SimpleRateLimiter"
  /\ \E c \in limiter.sleeping : limiter' = WakeUp(limiter, c)
  /\ UNCHANGED <<config, pool, faults, invoker, chunker, stream, route>>

ClockAdvances ==
  /\ limiter.now < MaxTicks * TickMs
  /\ limiter' = [limiter EXCEPT !.now = @ + TickMs]
  /\ UNCHANGED <<config, pool, faults, invoker, chunker, stream, route>>

NextLimiter ==
  \/ CallerArrives
  \/ IntervalFires
  \/ SimpleCallerArrives
  \/ SleepEnds
  \/ ClockAdvances

SpecLimiter == InitLimiter /\ [][NextLimiter]_vars

(***************************************************************************)
(* The rate limiter over unbounded time.  The limiter reads its clock only *)
(* in differences now - timestamp and every reader of requestTimestamps    *)
(* filters it first, so a state is kept up to a shift of the clock and     *)
(* without the timestamps that have aged out; the histories granted and    *)
(* served are not kept.  Only the callers that are queued get a number; a  *)
(* caller let through at once leaves nothing behind but its timestamp.     *)
(***************************************************************************)
Rebase(l) ==
  LET p == Prune(l) IN
  [p EXCEPT !.requestTimestamps = [k \in 1..Len(p.requestTimestamps) |->
                                      p.requestTimestamps[k] - p.now],
            !.now = 0,
            !.granted = <<>>,
            !.served = <<>>]

InitLimiterLive ==
  /\ config = [MAX_RETRIES |-> 0]
  /\ pool = WorkerPool(DefaultPoolSize, DefaultMaxConcurrent)
  /\ faults = [failures |-> 0, timeouts |-> 0]
  /\ invoker = <<>>
  /\ \E rate \in 1..MaxRate : limiter = NewLimiter("RateLimiter", rate)
  /\ chunker = NoChunker
  /\ stream = NoStream
  /\ route = NoRoute

\* waitForAvailableSlot() of a caller that is let through at once
PassingCallerArrives ==
  /\ LET r == WaitForAvailableSlot(limiter) IN
       /\ r.waitingQueue = limiter.waitingQueue
       /\ limiter' = Rebase([r EXCEPT !.callers = limiter.callers])
  /\ UNCHANGED <<config, pool, faults, invoker, chunker, stream, route>>

\* waitForAvailableSlot() of a caller that is queued
WaitingCallerArrives ==
  /\ limiter.callers < MaxCallers
  /\ LET r == WaitForAvailableSlot(limiter) IN
       /\ r.waitingQueue # limiter.waitingQueue
       /\ limiter' = Rebase(r)
  /\ UNCHANGED <<config, pool, faults, invoker, chunker, stream, route>>

\* the interval callback runs every 100 ms while the queue is not empty
IntervalRuns ==
  /\ limiter.processing
  /\ limiter' = Rebase(IntervalCallback(limiter))
  /\ UNCHANGED <<config, pool, faults, invoker, chunker, stream, route>>

TimePasses ==
  /\ limiter' = Rebase([limiter EXCEPT !.now = @ + TickMs])
  /\ UNCHANGED <<config, pool, faults, invoker, chunker, stream, route>>

NextLimiterLive ==
  \/ PassingCallerArrives
  \/ WaitingCallerArrives
  \/ IntervalRuns
  \/ TimePasses

\* time keeps advancing and the interval timer keeps running its callback;
\* nothing obliges a caller to arrive or to stay away
SpecLimiterLive ==
  /\ InitLimiterLive /\ [][NextLimiterLive]_vars
  /\ WF_vars(IntervalRuns)
  /\ WF_vars(TimePasses)

(***************************************************************************)
(* Properties of the pool                                                  *)
(***************************************************************************)
Submitted == DOMAIN pool.task
Executing == pool.attempts     \* fn was started and has neither returned nor thrown
Undecremented == {a \in pool.attempts : a.timer = "armed"}
IsSettled(t) == pool.task[t].status \in {"completed", "failed"}

\* C1: after any sequence of submissions, completions, failures, retries and
\* timeouts, activeRequests never exceeds maxConcurrentRequests.
C1_ActiveWithinLimit == pool.activeRequests <= pool.maxConcurrentRequests

\* the limit is what holds a queued task back: an idle worker is there
C1_Witness ==
  /\ pool.activeRequests = pool.maxConcurrentRequests
  /\ Len(pool.tasks) > 0
  /\ GetAvailableWorker(pool) # NoWorker

\* C2: at every instant the number of executing tasks is at most the pool size.
C2_ExecutingWithinPool == Cardinality(Executing) <= pool.size

\* C3: activeRequests is incremented once per dispatch and decremented once for
\* that dispatch, so it counts the dispatches not yet decremented and is never
\* negative.
C3_CountedOnce ==
  /\ pool.activeRequests = Cardinality(Undecremented)
  /\ pool.activeRequests >= 0

\* C4: the pool size never exceeds maxConcurrentRequests.
C4_SizeWithinLimit == pool.size <= pool.maxConcurrentRequests

\* C5: a task's promise is settled at most once; a completed or failed task is
\* neither queued nor executed nor waiting for a retry again; every move of a
\* task is queued -> executing -> completed | failed | retrying -> queued.
C5_SettledOnce ==
  \A t \in Submitted :
    /\ pool.task[t].settles <= 1
    /\ pool.task[t].legal
    /\ (pool.task[t].settles = 1) <=> IsSettled(t)
    /\ (pool.task[t].promise # "pending") <=> IsSettled(t)
    /\ IsSettled(t) =>
         /\ \A i \in 1..Len(pool.tasks) : pool.tasks[i] # t
         /\ \A a \in pool.attempts : a.task # t
         /\ \A r \in pool.retryTimers : r.task # t

\* a task has failed for good after a retry while another one has completed
C5_Witness ==
  /\ \E t \in Submitted : pool.task[t].status = "failed" /\ pool.task[t].execs >= 2
  /\ \E t \in Submitted : pool.task[t].status = "completed"

\* C6: if every attempt eventually returns or throws, every submitted task is
\* eventually settled and the queue eventually becomes empty.
C6_AllSettle ==
  /\ \A t \in 1..MaxTasks :
       (t \in Submitted) ~> (t \in Submitted /\ pool.task[t].promise # "pending")
  /\ (pool.tasks # <<>>) ~> (pool.tasks = <<>>)

\* C7: a task whose fn fails on every attempt is executed exactly maxRetries + 1
\* times and then rejected: it is rejected after that many executions and no
\* fewer, it is executed again while fewer have failed, and no task is executed
\* more often.
C7_RetryBudget ==
  \A t \in Submitted :
    LET k == pool.task[t] IN
    /\ k.execs <= k.maxRetries + 1
    /\ k.status = "failed" => k.execs = k.maxRetries + 1 /\ k.promise = "rejected"
    /\ k.status \in {"queued", "retrying"} => k.execs = k.retries /\ k.execs <= k.maxRetries
    /\ k.status = "executing" => k.execs = k.retries + 1

\* a task with a retry budget has used it up and is rejected
C7_Witness ==
  \E t \in Submitted :
    /\ pool.task[t].status = "failed"
    /\ pool.task[t].maxRetries >= 1
    /\ pool.task[t].execs = pool.task[t].maxRetries + 1

\* the tasks that the step dispatches
Dispatched ==
  {t \in DOMAIN pool'.task :
      pool'.task[t].execs > (IF t \in DOMAIN pool.task THEN pool.task[t].execs ELSE 0)}

\* C14: whenever processQueue dispatches a task, no task still in the queue has
\* a strictly higher priority, also after failed tasks were re-enqueued for a
\* retry (the first half of the claim; every step dispatches at most one task).
C14_HighestFirst ==
  [][\A t \in Dispatched : \A k \in 1..Len(pool'.tasks) :
        pool'.task[pool'.tasks[k]].priority <= pool'.task[t].priority]_vars

(***************************************************************************)
(* Properties of the invoker                                               *)
(***************************************************************************)
AllTransient(v) == \A k \in 1..Len(v.caught) : v.caught[k] = "transient"
SawTerminal(v) == \E k \in 1..Len(v.caught) : v.caught[k] = "terminal"

\* C8: when the external call fails transiently on every attempt, processChunk
\* throws after maxRetries + 1 external calls (the first and maxRetries retries).
C8_CallsBeforeThrow ==
  \A i \in 1..Len(invoker) :
    (invoker[i].pc = "thrown" /\ Len(invoker[i].caught) > 0 /\ AllTransient(invoker[i]))
      => invoker[i].calls = invoker[i].maxRetries + 1

\* C9: a call that fails with a terminal error is attempted once: processChunk
\* throws at once, with no backoff and no second call, and the pool arms no
\* retry for it.
C9_TerminalOnce ==
  /\ \A i \in 1..Len(invoker) :
       SawTerminal(invoker[i]) =>
         /\ invoker[i].pc = "thrown"
         /\ invoker[i].calls = 1
         /\ invoker[i].waits = <<>>
  /\ \A r \in pool.retryTimers : r.error # "terminal"

(***************************************************************************)
(* Properties of the rate limiters                                         *)
(***************************************************************************)
\* the grants in the 60 seconds that end with grant i
GrantsInWindow(i) ==
  {j \in 1..Len(limiter.granted) :
      /\ limiter.granted[j].at <= limiter.granted[i].at
      /\ limiter.granted[i].at - limiter.granted[j].at < WindowMs}

Younger == SelectSeq(limiter.requestTimestamps, LAMBDA t : limiter.now - t < WindowMs)

\* C10: no 60-second window holds more than maxRequestsPerMinute grants, and
\* requestTimestamps never holds more than maxRequestsPerMinute timestamps
\* younger than 60 s.
C10_RateBound ==
  /\ \A i \in 1..Len(limiter.granted) :
        Cardinality(GrantsInWindow(i)) <= limiter.maxRequestsPerMinute
  /\ Len(Younger) <= limiter.maxRequestsPerMinute

\* the window is full, a caller is held back, and earlier grants have aged out
C10_Witness ==
  /\ limiter.kind = "RateLimiter"
  /\ Len(limiter.granted) > limiter.maxRequestsPerMinute
  /\ Len(Younger) = limiter.maxRequestsPerMinute
  /\ limiter.waitingQueue # <<>>

Waiting == {limiter.waitingQueue[k] : k \in 1..Len(limiter.waitingQueue)}

\* C11: a caller that arrives while earlier callers are suspended in the
\* waiting queue is never granted before them: no caller still waiting came
\* before a caller that has been granted.
C11_NoOvertaking ==
  \A i \in 1..Len(limiter.granted) : \A w \in Waiting : limiter.granted[i].caller < w

\* C12: every caller suspended in the waiting queue is eventually granted a
\* slot when time keeps advancing, even when new callers keep arriving.
C12_WaitersGranted ==
  \A c \in 1..MaxCallers : (c \in Waiting) ~> (c \notin Waiting)

\* C13: the waiters are resolved in the order of their calls: served is in
\* call order, and nobody still waiting called before a served waiter.
C13_FirstComeFirstServed ==
  /\ \A i, j \in 1..Len(limiter.served) : i < j => limiter.served[i] < limiter.served[j]
  /\ \A i \in 1..Len(limiter.served) : \A w \in Waiting : limiter.served[i] < w

\* two callers waited together and both have been resolved from the queue
C13_Witness ==
  /\ Len(limiter.served) >= 2
  /\ \E i \in 1..Len(limiter.granted) :
        /\ limiter.granted[i].caller = limiter.served[1]
        /\ limiter.granted[i].at > 0

(***************************************************************************)
(* Properties of chunkText                                                 *)
(***************************************************************************)
RECURSIVE Concat(_)
Concat(chunks) == IF chunks = <<>> THEN <<>> ELSE Head(chunks) \o Concat(Tail(chunks))

\* the indices of the text at which one chunk ends and the next begins
Boundaries(chunks) ==
  {Len(Concat(SubSeq(chunks, 1, k))) : k \in 1..(Len(chunks) - 1)}

\* C15: no boundary between two consecutive chunks lies strictly inside the
\* span of a fenced code block (utils/textProcessing.ts, whose chunks are
\* substrings of the text one after the other).
C15_FencesKeptWhole ==
  chunker.version = "textProcessing.ts" =>
    \A i \in 1..Len(chunker.returned) :
      \A b \in Boundaries(chunker.returned[i]) :
        \A k \in 1..Len(CodeBlocks(chunker.text)) :
          ~(CodeBlocks(chunker.text)[k].start < b /\ b < CodeBlocks(chunker.text)[k].end)

\* C16: the chunks returned by chunkText(T, S), concatenated in order, are T.
C16_ConcatIsText ==
  chunker.version # "none" =>
    \A i \in 1..Len(chunker.returned) : Concat(chunker.returned[i]) = chunker.text

\* C17: a text longer than S is never returned as one chunk, and every chunk
\* of a text without a fenced code block, where no chunk was extended to the
\* end of a block, has length <= S at whatever boundary it was cut.
C17_ChunksWithinSize ==
  chunker.version # "none" =>
    \A i \in 1..Len(chunker.returned) :
      LET chunks == chunker.returned[i] IN
      /\ Len(chunker.text) > chunker.maxChunkSize => Len(chunks) > 1
      /\ CodeBlocks(chunker.text) = <<>> =>
           \A k \in 1..Len(chunks) : Len(chunks[k]) <= chunker.maxChunkSize

Ended == stream.phase \in {"result", "error"}

\* C19: the chunks are submitted to the pool at most once each, in increasing
\* chunk-index order and with strictly decreasing priorities, and when the
\* handler has ended every chunk of the chunker was submitted.
C19_EveryChunkSubmitted ==
  stream.phase # "none" =>
    /\ \A k, l \in 1..Len(stream.submitted) :
         k < l => /\ stream.submitted[k].chunkIndex < stream.submitted[l].chunkIndex
                  /\ stream.submitted[k].priority > stream.submitted[l].priority
    /\ Ended =>
         \A chunkIndex \in 0..(stream.length - 1) :
           \E k \in 1..Len(stream.submitted) :
             stream.submitted[k].chunkIndex = chunkIndex

\* C20: when the handler has ended, every chunk whose call succeeded has its
\* own summary in the summaries array and in the output, and the handler
\* ended with an error only if the meta-summary failed.
C20_SuccessesKept ==
  (stream.phase # "none" /\ Ended) =>
    /\ stream.phase = "result" =>
         \A chunkIndex \in 0..(stream.length - 1) :
           stream.promise[chunkIndex + 1] = "fulfilled" =>
             /\ stream.summaries[chunkIndex + 1] = Summary(chunkIndex)
             /\ \E k \in 1..Len(stream.output) : stream.output[k] = Summary(chunkIndex)
    /\ stream.phase = "error" =>
         Len(SelectSeq(stream.summaries, LAMBDA x : x # Null)) > DirectCombination

\* C21: when the handler of a run of several chunks has ended and every chunk
\* failed, it ended with the error 'All chunks failed processing' and sent no
\* result.
C21_AllFailedIsAnError ==
  (/\ stream.phase # "none"
   /\ Ended
   /\ stream.length > 1
   /\ \A chunkIndex \in 0..(stream.length - 1) :
        stream.promise[chunkIndex + 1] = "rejected") =>
    /\ stream.phase = "error"
    /\ stream.error = "All chunks failed processing"
    /\ stream.sections = <<>>

\* the valid summaries the handler found when it left the chunk processing
ValidSummaries == SelectSeq(stream.summaries, LAMBDA x : x # Null)

\* C22: once the chunk processing is over, a meta-summary task was submitted
\* iff there are more than 4 valid summaries, and then one only; with 4 or
\* fewer the result is the combination of the valid summaries.
C22_MetaSummaryAboveFour ==
  stream.phase \in {"meta", "result", "error"} =>
    /\ stream.metaTasks = IF Len(ValidSummaries) > 4 THEN 1 ELSE 0
    /\ (Len(ValidSummaries) <= 4 /\ stream.phase = "result") =>
         /\ Len(stream.sections) = Len(ValidSummaries)
         /\ \A k \in 1..Len(ValidSummaries) :
              stream.sections[k].summary = ValidSummaries[k]

\* a run with more than four valid summaries awaits its one meta-summary
C22_Witness ==
  /\ stream.phase = "meta"
  /\ Len(ValidSummaries) > 4
  /\ stream.metaTasks = 1

\* C23: a run of 3 or 4 chunks in which no call failed ends with one section
\* "## Part N" per chunk, N = 1 .. number of chunks, holding the summary of
\* chunk N - 1, and without a meta-summary task.
C23_OnePartPerChunk ==
  (/\ stream.phase = "result"
   /\ stream.length \in {3, 4}
   /\ \A chunkIndex \in 0..(stream.length - 1) :
        stream.promise[chunkIndex + 1] # "rejected") =>
    /\ stream.metaTasks = 0
    /\ Len(stream.sections) = stream.length
    /\ \A N \in 1..stream.length :
         stream.sections[N] = Section("## Part", N, Summary(N - 1))

\* C24: whatever the order in which the promises settle, a summary stored at
\* position i of summaries is the summary of chunk i, and the summaries of the
\* output are in chunk-index order.
C24_StoredByChunkIndex ==
  stream.phase \notin {"none", "chunked"} =>
    /\ \A i \in 1..stream.length :
         stream.summaries[i].kind = "summary" => stream.summaries[i] = Summary(i - 1)
    /\ \A k, l \in 1..Len(stream.output) :
         (k < l /\ stream.output[k].kind = "summary" /\ stream.output[l].kind = "summary")
           => stream.output[k].chunkIndex < stream.output[l].chunkIndex

\* the promises of a batch were fulfilled in decreasing chunk-index order and
\* the results of the batch are stored
C24_Witness ==
  /\ stream.phase = "delay"
  /\ Len(stream.settled) > 1
  /\ \A k \in 1..(Len(stream.settled) - 1) : stream.settled[k] > stream.settled[k + 1]
  /\ \A k \in 1..Len(stream.settled) :
       stream.summaries[stream.settled[k] + 1] = Summary(stream.settled[k])

(***************************************************************************)
(* WorkerPool: the workers of a reduced pool                               *)
(***************************************************************************)
\* the workers of pool p
WorkersOf(p) == {p.workers[i] : i \in 1..Len(p.workers)}

\* the workers on which a call of executeTask is awaiting task.fn()
ExecutingWorkers == {a.worker : a \in pool.attempts}

\* C25: a step in which adjustPoolSize reduces the pool leaves every worker
\* that is executing a task, and every worker whose busy flag is set, in
\* pool.workers.
C25_ShrinkKeepsBusy ==
  [][pool'.size < pool.size =>
       (ExecutingWorkers \cup pool.busy) \subseteq WorkersOf(pool')]_vars

(***************************************************************************)
(* WorkerPool: the call that outlasts its timeout                          *)
(***************************************************************************)
\* the calls of executeTask whose REQUEST_TIMEOUT callback has run while
\* task.fn() is still pending
TimedOut == {a \in pool.attempts : a.timer = "fired"}

\* C26: when the call of a timed-out execution ends, by a result or by an
\* error, the promise of its task stays as it was, completedTasks does not
\* change, and no retry is armed.
C26_LateOutcomeDiscarded ==
  [][\A a \in TimedOut :
       a \notin pool'.attempts =>
         /\ pool'.task[a.task].promise = pool.task[a.task].promise
         /\ pool'.completedTasks = pool.completedTasks
         /\ pool'.retryTimers = pool.retryTimers]_vars

(***************************************************************************)
(* The error delivered to the caller of a chunk                            *)
(***************************************************************************)
\* the invocation of processChunk made by the latest execution of the task
LastInvocation == invoker[Len(invoker)]

\* C27: an invocation of processChunk that gave up after a failed call threw
\* the error of its last call, and a task whose last execution has failed with
\* no retry left is rejected, never pending or resolved, with the error that
\* execution threw.
C27_LastErrorDelivered ==
  /\ \A i \in 1..Len(invoker) :
       (invoker[i].pc = "thrown" /\ invoker[i].caught # <<>>)
         => invoker[i].thrown = invoker[i].caught[Len(invoker[i].caught)]
  /\ \A t \in Submitted :
       LET k == pool.task[t] IN
       /\ (/\ k.execs = k.maxRetries + 1
           /\ LastInvocation.pc = "thrown"
           /\ \A a \in pool.attempts : a.task # t)
            => k.status = "failed" /\ k.promise = "rejected"
       /\ k.status = "failed" =>
            /\ k.promise = "rejected"
            /\ k.error = k.lastError
            /\ k.error = LastInvocation.thrown

\* the task was executed more than once, its executions threw different
\* errors, and it is rejected
C27_Witness ==
  /\ Len(invoker) >= 2
  /\ invoker[1].pc = "thrown"
  /\ invoker[1].thrown # LastInvocation.thrown
  /\ \E t \in Submitted : pool.task[t].status = "failed"

(***************************************************************************)
(* processChunk: the backoff waits                                         *)
(***************************************************************************)
\* C28: the wait of processChunk before its retry k is 2^k * 1000 ms, and an
\* invocation whose first two calls failed and whose third call succeeded has
\* returned after three calls and two waits, of 2000 ms and then 4000 ms.
C28_BackoffDoubles ==
  \A i \in 1..Len(invoker) :
    /\ \A k \in 1..Len(invoker[i].waits) : invoker[i].waits[k] = Pow2(k) * 1000
    /\ (invoker[i].pc = "returned" /\ Len(invoker[i].caught) = 2) =>
         /\ invoker[i].calls = 3
         /\ invoker[i].waits = <<2000, 4000>>

\* an invocation has returned from its third call
C28_Witness ==
  \E i \in 1..Len(invoker) :
    /\ invoker[i].pc = "returned"
    /\ Len(invoker[i].caught) = 2
    /\ invoker[i].calls = 3

(***************************************************************************)
(* The summarize route: the chunks processed and the count reported        *)
(***************************************************************************)
\* C29: a response to a request in which no call of processChunk failed holds
\* the summaries of min(chunks, maxChunksTotal) chunks, and its processedChunks
\* is the number of the chunks summarised.
C29_CapReportedTruthfully ==
  (route.phase = "response" /\ route.failures = 0) =>
    /\ Len(route.results) = Min(route.chunks, RateLimits.maxChunksTotal)
    /\ route.processedChunks = Len(route.results)

\* four chunks, every call of processChunk returned: three chunks are
\* summarised and the response reports four
C29_Counterexample ==
  /\ route.phase = "response"
  /\ route.failures = 0
  /\ route.chunks = 4
  /\ route.calls = <<0, 1, 2>>
  /\ Len(route.results) = 3
  /\ route.processedChunks = 4

(***************************************************************************)
(* The retry of a failed task attempt                                      *)
(***************************************************************************)
\* the backoff timers armed for task t in pool p
RetryTimersOf(p, t) == {r \in p.retryTimers : r.task = t}

\* C30: an attempt of a task that fails with retries < maxRetries leaves the
\* task out of the queue, its retry count one higher, behind one backoff timer
\* of min(30000, 1000 * 2^retries) for the retry count it now has, which is no
\* shorter than that for the count it had; the task enters the queue again only
\* in the step that timer fires, with the same retry count and a priority
\* higher than before.  An attempt that fails with retries = maxRetries arms
\* no timer, leaves the task out of the queue for good and rejects the promise.
C30_RetryAfterBackoff ==
  [][\A t \in DOMAIN pool.task :
       LET k == pool.task[t]
           n == pool'.task[t]
           failed == k.status = "executing" /\ n.status \in {"retrying", "failed"}
       IN
       /\ (failed /\ k.retries < k.maxRetries) =>
             /\ n.status = "retrying" /\ n.promise = "pending"
             /\ n.retries = k.retries + 1
             /\ n.priority = k.priority
             /\ \A i \in DOMAIN pool'.tasks : pool'.tasks[i] # t
             /\ \E r \in pool'.retryTimers :
                   /\ RetryTimersOf(pool', t) = {r}
                   /\ r.delay = Min(30000, 1000 * Pow2(n.retries))
                   /\ r.delay >= Min(30000, 1000 * Pow2(k.retries))
       /\ (failed /\ k.retries >= k.maxRetries) =>
             /\ k.retries = k.maxRetries
             /\ n.status = "failed" /\ n.promise = "rejected"
             /\ RetryTimersOf(pool', t) = {}
             /\ \A i \in DOMAIN pool'.tasks : pool'.tasks[i] # t
       /\ (k.status = "retrying" /\ n.status = "retrying") =>
             /\ RetryTimersOf(pool', t) = RetryTimersOf(pool, t)
             /\ \A i \in DOMAIN pool'.tasks : pool'.tasks[i] # t
       /\ (k.status = "retrying" /\ n.status # "retrying") =>
             /\ n.status \in {"queued", "executing"}
             /\ RetryTimersOf(pool, t) # {} /\ RetryTimersOf(pool', t) = {}
             /\ n.retries = k.retries
             /\ n.priority > k.priority
       /\ k.status = "failed" => n.status = "failed" /\ RetryTimersOf(pool', t) = {}
    ]_vars

\* a task waits behind the capped backoff after waiting behind a shorter one,
\* has been in the queue again in between, and a task out of retries is rejected
C30_Witness ==
  \E t \in DOMAIN pool.task :
    /\ pool.task[t].status = "retrying"
    /\ pool.task[t].retries = pool.task[t].maxRetries
    /\ pool.task[t].retries > 1
    /\ pool.task[t].priority > MaxPriority + 1
    /\ \E r \in RetryTimersOf(pool, t) : r.delay = MaxBackoffMs

(***************************************************************************)
(* The worker slot freed by REQUEST_TIMEOUT                                *)
(***************************************************************************)
\* processQueue would dispatch: a task is queued, a worker is idle and
\* activeRequests is below the maximum
Stalled(p) ==
  /\ CanDispatch(p)
  /\ GetAvailableWorker(p) # NoWorker

\* C31: the step in which the REQUEST_TIMEOUT timer of a running call fires
\* leaves the call running and its task unsettled, and dispatches the task at
\* the head of the queue, if there is one, on a worker; and no step leaves the
\* pool with a queued task, an idle worker and activeRequests below the
\* maximum.
C31_TimeoutFreesSlot ==
  [][/\ \A a \in pool.attempts :
          (a.timer = "armed" /\ [a EXCEPT !.timer = "fired"] \in pool'.attempts) =>
             /\ pool'.task[a.task].status = "executing"
             /\ pool'.task[a.task].promise = "pending"
             /\ pool.tasks # <<>> =>
                   \E b \in pool'.attempts \ pool.attempts :
                      b.task = Head(pool.tasks) /\ b.timer = "armed"
     /\ ~Stalled(pool')]_vars

(***************************************************************************)
(* WorkerPool: the size adjustment                                         *)
(***************************************************************************)
\* C32: a run of updateRequestMetrics over 5 minutes with n newly completed
\* tasks (n / 5 requests per minute) has the target max(3, min(ceil(n / 50),
\* maxConcurrentRequests)); it sets size to the target and leaves as many
\* workers when |target - size| > max(2, size / 4), and leaves size and the
\* workers as they are otherwise.  No other step changes size or the workers.
C32_AdjustsOnSignificantChange ==
  [][LET n == pool.completedTasks - pool.lastRequestsCount
         perTen == IF n % 50 = 0 THEN n \div 50 ELSE (n \div 50) + 1
         capped == IF perTen < pool.maxConcurrentRequests
                     THEN perTen ELSE pool.maxConcurrentRequests
         target == IF capped > 3 THEN capped ELSE 3
         diff == IF target > pool.size THEN target - pool.size ELSE pool.size - target
         acts == diff > 2 /\ 4 * diff > pool.size
     IN  /\ (MetricsTick /\ acts) =>
               pool'.size = target /\ Len(pool'.workers) = target
         /\ (MetricsTick /\ ~acts) =>
               pool'.size = pool.size /\ pool'.workers = pool.workers
         /\ ~MetricsTick =>
               pool'.size = pool.size /\ pool'.workers = pool.workers
    ]_vars

\* a pool of more than ten workers was reduced to six while one of them was busy
C32_Witness ==
  /\ pool.size = 6
  /\ Len(pool.workers) = 6
  /\ pool.nextWorker > DefaultPoolSize
  /\ pool.lastRequestsCount >= 260
  /\ pool.busy # {}

(***************************************************************************)
(* chunkText: the boundary of a cut                                        *)
(***************************************************************************)
\* the occurrences of pat that begin after currentIndex, at or before endIndex
\* and less than window characters before it
Candidates(text, pat, currentIndex, endIndex, window) ==
  {i \in 0..endIndex : /\ OccursAt(text, pat, i)
                       /\ i > currentIndex
                       /\ i > endIndex - window}

\* C33: a chunk pushed by the splitting loop whose tentative endIndex is before
\* the end of the text ends at a header of the header window if there is one;
\* else after a paragraph break of its window if there is one; else after a
\* line break of its window if there is one; else after a sentence terminator
\* and the whitespace behind it, of its window, if there is one; else at the
\* tentative endIndex.
C33_BestBoundaryFirst ==
  chunker.version # "none" =>
    LET text == chunker.text
        lim == chunker.lim
        chunks == chunker.split
        size == IF chunker.version = "textProcessing.ts" THEN chunker.maxChunkSize
                ELSE Min(chunker.maxChunkSize, GetOptimalChunkSize(Len(text), lim))
    IN \A k \in 1..Len(chunks) :
         LET currentIndex == Len(Concat(SubSeq(chunks, 1, k - 1)))
             cut == currentIndex + Len(chunks[k])
             endIndex == AvoidCodeBlock(CodeBlocks(text), currentIndex,
                                        Min(currentIndex + size, Len(text)))
             headers == {h \in {Headers(text)[j] : j \in 1..Len(Headers(text))} :
                            h > currentIndex /\ h < endIndex /\ h > endIndex - lim.headerWindow}
             paragraphs == Candidates(text, ParagraphBreak, currentIndex, endIndex,
                                      lim.paragraphWindow)
             lines == Candidates(text, LineBreak, currentIndex, endIndex, lim.lineWindow)
             sentences == UNION {Candidates(text, SentenceEnders[e], currentIndex, endIndex,
                                            lim.sentenceWindow) : e \in 1..Len(SentenceEnders)}
         IN endIndex < Len(text) =>
              IF headers # {} THEN cut \in headers
              ELSE IF paragraphs # {} THEN cut - 2 \in paragraphs
              ELSE IF lines # {} THEN cut - 1 \in lines
              ELSE IF sentences # {} THEN cut - 2 \in sentences
              ELSE cut = endIndex

\* a text was cut after a line break although a sentence terminator of the
\* sentence window lies nearer to the tentative end of the chunk
C33_Witness ==
  /\ chunker.version # "none"
  /\ Len(chunker.split) >= 2
  /\ LET text == chunker.text
         cut == Len(chunker.split[1])
         endIndex == Min(chunker.maxChunkSize, Len(text))
     IN /\ CodeBlocks(text) = <<>>
        /\ Headers(text) = <<>>
        /\ cut - 1 \in Candidates(text, LineBreak, 0, endIndex, chunker.lim.lineWindow)
        /\ \E i \in Candidates(text, <<".", " ">>, 0, endIndex, chunker.lim.sentenceWindow) :
              i >= cut

(***************************************************************************)
(* chunkText of the session server: the merge of the small chunks          *)
(***************************************************************************)
\* C34: after the merge post-pass, a returned chunk longer than maxChunkSize is
\* a chunk the splitting loop pushed, not one the merge made, and the first
\* returned chunk begins with the first chunk of the loop.
C34_MergeWithinSize ==
  (chunker.version = "session server" /\ chunker.split # <<>>) =>
    LET chunks == chunker.returned[Len(chunker.returned)] IN
    /\ \A k \in 1..Len(chunks) :
          Len(chunks[k]) > chunker.maxChunkSize =>
             \E j \in 1..Len(chunker.split) : chunker.split[j] = chunks[k]
    /\ SubSeq(chunks[1], 1, Len(chunker.split[1])) = chunker.split[1]

(***************************************************************************)
(* summarize-stream: the events of a run                                   *)
(***************************************************************************)
\* the events that end a run
Terminal == {"result", "error"}

\* the handler has called res.end()
ResponseEnded == stream.phase \in {"result", "error", "small result", "small error"}

C36_TimerCancelledAtEnd ==
  [][/\ \A w \in DOMAIN pool'.staleTimers : pool'.staleTimers[w] = 0
     /\ \A a \in pool.attempts :
          (a \in pool'.attempts /\ a.timer = "armed") =>
             (a.worker \in pool.busy => a.worker \in pool'.busy)]_vars

(***************************************************************************)
(* processChunkWithWorker: the grants of the rate limiter and the external *)
(* calls of the executions of one chunk's task                             *)
(***************************************************************************)
\* the external calls made by the first n invocations of processChunk
ExternalCalls(n) ==
  LET calls[k \in 0..n] == IF k = 0 THEN 0 ELSE calls[k - 1] + invoker[k].calls
  IN calls[n]

\* C37: every external call made for a chunk has a grant of the rate limiter
\* of its own, the calls repeated by the retry loop of processChunk included,
\* so the calls of one window are no more than its grants and no more than
\* API_REQUESTS_PER_MINUTE.
C37_EveryCallGranted ==
  /\ ExternalCalls(Len(invoker)) <= Len(limiter.requestTimestamps)
  /\ Len(limiter.requestTimestamps) <= limiter.maxRequestsPerMinute

\* every external call made so far for the chunk has failed or is pending
FailsEveryTime ==
  \A k \in 1..Len(invoker) :
     /\ invoker[k].pc # "returned"
     /\ Len(invoker[k].caught) >= invoker[k].calls - 1

\* C38: the retries of processChunk and of the pool are not compounded: for
\* one chunk whose external call fails every time, the external calls made by
\* all the executions of its task are at most MAX_RETRIES + 1.
C38_RetriesNotCompounded ==
  FailsEveryTime => ExternalCalls(Len(invoker)) <= config.MAX_RETRIES + 1

(***************************************************************************)
(* chunkText: the progress of the splitting loop                           *)
(***************************************************************************)
\* the size the splitting loop of the version in use cuts by
LoopSize(c) ==
  IF c.version = "textProcessing.ts" THEN c.maxChunkSize
  ELSE Min(c.maxChunkSize, GetOptimalChunkSize(Len(c.text), c.lim))

\* C39: the splitting loop ends: every iteration pushes a non-empty chunk and
\* moves currentIndex forward to an index that is at most the length of the
\* text, the chunks pushed are the text cut in pieces, and no chunk returned
\* for a text longer than maxChunkSize is empty.
C39_LoopTerminates ==
  (chunker.version # "none" /\ chunker.returned # <<>>) =>
    LET text == chunker.text
        chunks == chunker.split
        returned == chunker.returned[Len(chunker.returned)]
    IN /\ \A k \in 1..Len(chunks) :
            LET currentIndex == Len(Concat(SubSeq(chunks, 1, k - 1)))
                endIndex == NextCut(text, CodeBlocks(text), Headers(text), chunker.lim,
                                    LoopSize(chunker), currentIndex)
            IN /\ chunks[k] # <<>>
               /\ currentIndex < endIndex
               /\ endIndex <= Len(text)
               /\ endIndex = currentIndex + Len(chunks[k])
       /\ chunks # <<>> => Concat(chunks) = text
       /\ Len(text) > chunker.maxChunkSize =>
            /\ returned # <<>>
            /\ \A k \in 1..Len(returned) : returned[k] # <<>>

\* the loop has run more than once, and one of its cuts lies after the
\* tentative end of its chunk, currentIndex + maxChunkSize
C39_Witness ==
  /\ chunker.version # "none"
  /\ Len(chunker.split) >= 3
  /\ \E k \in 1..(Len(chunker.split) - 1) : Len(chunker.split[k]) > LoopSize(chunker)

====
